---------------------------- MODULE Spec2Model ----------------------------
(***************************************************************************)
(* A model of the x86/x64 lowering phase of the JIT                        *)
(* (src/src/coreclr/jit/lowerxarch.cpp).  A block is a LIR range: a        *)
(* sequence of nodes in execution order, every node naming its operands.   *)
(* Lowering walks the range once, node by node; the handler of a node may  *)
(* rewrite the range and returns the node at which the walk resumes.       *)
(***************************************************************************)
EXTENDS Integers, Sequences, FiniteSets, TLC

VARIABLES nodes, range, cur, pass, snap, input

vars == <<nodes, range, cur, pass, snap, input>>

-----------------------------------------------------------------------------
(* Bounds of the model                                                     *)

\* number of lowering runs over a block (the second run re-lowers the output)
NumPasses == 2

-----------------------------------------------------------------------------
(* Bytes as truth tables                                                   *)

\* the three input columns of a ternary truth table
A == 240
B == 204
C == 170

BitsOf(x) == {i \in 0..7 : (x \div (2 ^ i)) % 2 = 1}

FromBits(S) ==
    LET f[i \in 0..8] == IF i = 8 THEN 0 ELSE (IF i \in S THEN 2 ^ i ELSE 0) + f[i + 1]
    IN  f[0]

BitAt(x, i) == (x \div (2 ^ i)) % 2

ByteNot(x) == 255 - x
ByteAnd(x, y) == FromBits(BitsOf(x) \cap BitsOf(y))
ByteOr(x, y) == FromBits(BitsOf(x) \cup BitsOf(y))
ByteXor(x, y) == FromBits((BitsOf(x) \cup BitsOf(y)) \ (BitsOf(x) \cap BitsOf(y)))

\* vpternlog: result bit i is bit (4a + 2b + c) of the control byte
TernaryLogic(control, a, b, c) ==
    FromBits({i \in 0..7 : (4 * BitAt(a, i) + 2 * BitAt(b, i) + BitAt(c, i)) \in BitsOf(control)})

\* a binary bitwise operator applied to two truth tables; AND_NOT is ~x & y
GetTernaryControlByte(oper, x, y) ==
    CASE oper = "AND" -> ByteAnd(x, y)
      [] oper = "OR" -> ByteOr(x, y)
      [] oper = "XOR" -> ByteXor(x, y)
      [] oper = "AND_NOT" -> ByteAnd(ByteNot(x), y)
      [] OTHER -> 0

\* the function of an existing control byte applied to permuted columns
GetTernaryControlByteInfo(control, x, y, z) == TernaryLogic(control, x, y, z)

\* the inputs a control byte depends on, as a subset of {"A", "B", "C"}
GetAllUseFlags(control) ==
    {f \in {"A", "B", "C"} :
        LET d == CASE f = "A" -> 4 [] f = "B" -> 2 [] OTHER -> 1
        IN  \E i \in 0..7 : (i \div d) % 2 = 0 /\ BitAt(control, i) # BitAt(control, i + d)}

-----------------------------------------------------------------------------
(* Nodes and the block range                                               *)

\* oper: the node kind; hw: the intrinsic of a HWINTRINSIC node; ops: the
\* operand edges (node ids); ival: constant value, local number or call kind;
\* typ/size/base: value type, vector size in bytes and vector element type;
\* setFlags: GTF_SET_FLAGS, a later node reads the CPU flags this node sets;
\* mark: LIR::Flags::Mark, the scratch bit of a walk over the range
Node(oper, hw, ops, ival, typ) ==
    [oper |-> oper, hw |-> hw, ops |-> ops, ival |-> ival, typ |-> typ,
     size |-> 0, base |-> "", contained |-> FALSE, regOpt |-> FALSE,
     unused |-> FALSE, rmw |-> "NA", cc |-> "", ovf |-> FALSE, setFlags |-> FALSE,
     ivalHi |-> 0, gcHeap |-> FALSE, blkOp |-> "", mark |-> FALSE]

Pos(s, n) == CHOOSE i \in 1..Len(s.range) : s.range[i] = n

InRange(s, n) == \E i \in 1..Len(s.range) : s.range[i] = n

RangeSet(s) == {s.range[i] : i \in 1..Len(s.range)}

gtNext(s, n) ==
    LET i == Pos(s, n)
    IN  IF i < Len(s.range) THEN s.range[i + 1] ELSE 0

gtPrev(s, n) ==
    LET i == Pos(s, n)
    IN  IF i > 1 THEN s.range[i - 1] ELSE 0

Remove(s, n) == [s EXCEPT !.range = SelectSeq(@, LAMBDA x : x # n)]

InsertBefore(s, at, n) ==
    LET i == Pos(s, at)
    IN  [s EXCEPT !.range = SubSeq(@, 1, i - 1) \o <<n>> \o SubSeq(@, i, Len(@))]

InsertAfter(s, at, n) ==
    LET i == Pos(s, at)
    IN  [s EXCEPT !.range = SubSeq(@, 1, i) \o <<n>> \o SubSeq(@, i + 1, Len(@))]

\* allocate a node (not yet linked into the range); its id is NewId(s)
NewId(s) == Len(s.nodes) + 1

NewNode(s, rec) == [s EXCEPT !.nodes = Append(@, rec)]

Uses(s, n) == {u \in RangeSet(s) : \E k \in DOMAIN s.nodes[u].ops : s.nodes[u].ops[k] = n}

\* the user of n found by the forward search from n, or 0
TryGetUse(s, n) ==
    IF Uses(s, n) = {} THEN 0
    ELSE CHOOSE u \in Uses(s, n) : \A v \in Uses(s, n) : Pos(s, u) <= Pos(s, v)

\* LIR::Use::ReplaceWith: the edge of user that named old now names new
ReplaceWith(s, user, old, new) ==
    [s EXCEPT !.nodes[user].ops = [k \in DOMAIN @ |-> IF @[k] = old THEN new ELSE @[k]]]

SetUnusedValue(s, n) == [s EXCEPT !.nodes[n].unused = TRUE]

MakeSrcContained(s, parent, child) == [s EXCEPT !.nodes[child].contained = TRUE]

MakeSrcRegOptional(s, parent, child) == [s EXCEPT !.nodes[child].regOpt = TRUE]

\* use.ReplaceWith(n) when old has a user, else n->SetUnusedValue()
ReplaceUseOrMarkUnused(s, old, n) ==
    IF TryGetUse(s, old) # 0 THEN ReplaceWith(s, TryGetUse(s, old), old, n)
    ELSE SetUnusedValue(s, n)

IsVectorAllBitsSet(s, n) == s.nodes[n].oper = "CNS_VEC" /\ s.nodes[n].ival = 255

IsVectorZero(s, n) == s.nodes[n].oper = "CNS_VEC" /\ s.nodes[n].ival = 0

IsCnsVec(s, n) == s.nodes[n].oper = "CNS_VEC"

IsCnsIntOrI(s, n) == s.nodes[n].oper = "CNS_INT"

OperIsHWIntrinsic(s, n) == s.nodes[n].oper = "HWINTRINSIC"

BitwiseOpers == {"AND", "OR", "XOR", "AND_NOT"}

\* GetOperForHWIntrinsicId: the bitwise operator of an intrinsic, or "NONE"
GetOperForHWIntrinsicId(s, n) ==
    IF OperIsHWIntrinsic(s, n) /\ s.nodes[n].hw \in BitwiseOpers THEN s.nodes[n].hw ELSE "NONE"

OperIsBitwiseHWIntrinsic(oper) == oper \in BitwiseOpers

\* ResetHWIntrinsicId: the node becomes intrinsic hw over the operands ops
ResetHWIntrinsicId(s, n, hw, ops) == [s EXCEPT !.nodes[n].hw = hw, !.nodes[n].ops = ops]

-----------------------------------------------------------------------------
(* Side effects and containment safety                                     *)

\* SideEffectSet::InterferesWith: node c, executed after n was evaluated and
\* before n's value is consumed, may change what n reads
InterferesWith(s, n, c) ==
    \/ s.nodes[n].oper = "IND" /\ s.nodes[c].oper \in {"STOREIND", "CALL"}
    \/ /\ s.nodes[n].oper = "LCL_VAR"
       /\ s.nodes[c].oper = "STORE_LCL_VAR"
       /\ s.nodes[c].ival = s.nodes[n].ival

\* no node strictly between n and endExclusive interferes with n
IsInvariantInRange(s, n, endExclusive) ==
    \A i \in (Pos(s, n) + 1)..(Pos(s, endExclusive) - 1) : ~InterferesWith(s, n, s.range[i])

IsSafeToContainMem(s, parent, child) == IsInvariantInRange(s, child, parent)

IsSafeToMarkRegOptional(s, parent, child) ==
    s.nodes[child].oper # "LCL_VAR" \/ IsInvariantInRange(s, child, parent)

\* locals of the method are register candidates; a memory operand is a load
IsContainableMemoryOp(s, n) == s.nodes[n].oper = "IND"

\* locals known to liveness carry a weighted reference count; temporaries
\* introduced by lowering are untracked
IsTrackedLocal(s, n) == s.nodes[n].oper = "LCL_VAR" /\ s.nodes[n].ival \in DOMAIN s.cfg.wt

\* a local whose address is exposed is not a register candidate
lvDoNotEnregister(s, n) == s.nodes[n].ival = s.cfg.exposed

PreferredRegOptionalOperandOfSecond(s, op1, op2) ==
    IF op1 = 0 THEN op2
    ELSE IF s.nodes[op1].oper = "LCL_VAR"
         THEN IF /\ s.nodes[op2].oper = "LCL_VAR"
                 /\ ~lvDoNotEnregister(s, op1) /\ ~lvDoNotEnregister(s, op2)
                 /\ IsTrackedLocal(s, op1)
                 /\ IsTrackedLocal(s, op2)
                 /\ s.cfg.wt[s.nodes[op1].ival] >= s.cfg.wt[s.nodes[op2].ival]
              THEN op2
              ELSE op1
         ELSE op2

PreferredRegOptionalOperand(s, op1, op2) ==
    IF op1 = 0 THEN op2
    ELSE IF s.nodes[op1].oper = "LCL_VAR"
         THEN IF /\ s.nodes[op2].oper = "LCL_VAR"
                 /\ ~lvDoNotEnregister(s, op1) /\ ~lvDoNotEnregister(s, op2)
                 /\ IsTrackedLocal(s, op1)
                 /\ IsTrackedLocal(s, op2)
                 /\ s.cfg.wt[s.nodes[op1].ival] >= s.cfg.wt[s.nodes[op2].ival]
              THEN op2
              ELSE op1
         ELSE IF s.nodes[op2].oper = "LCL_VAR" THEN op2 ELSE op1

\* IsContainableHWIntrinsicOp: can child be a memory operand of parent, and
\* if not, may it be marked reg-optional
IsContainableHWIntrinsicOp(s, parent, child) ==
    [contain |->
        /\ ~OperIsHWIntrinsic(s, child)
        /\ \/ IsContainableMemoryOp(s, child) /\ IsSafeToContainMem(s, parent, child)
           \/ IsCnsVec(s, child) /\ ~IsVectorAllBitsSet(s, child) /\ ~IsVectorZero(s, child),
     regOptional |-> IsSafeToMarkRegOptional(s, parent, child)]

\* TryMakeSrcContainedOrRegOptional
TryMakeSrcContainedOrRegOptional(s, parent, child) ==
    IF IsContainableMemoryOp(s, child) /\ IsSafeToContainMem(s, parent, child)
    THEN MakeSrcContained(s, parent, child)
    ELSE IF IsSafeToMarkRegOptional(s, parent, child) THEN MakeSrcRegOptional(s, parent, child)
    ELSE s

\* a handler's result: the block and the node at which the walk resumes
WithNextOf(s, n) == [s |-> s, next |-> gtNext(s, n)]

\* LowerNode dispatches on the node kind; handlers re-enter it for the nodes
\* they create
RECURSIVE LowerNode(_, _)

-----------------------------------------------------------------------------
(* Containment of hardware intrinsic operands                              *)

MinOrZero(S) == IF S = {} THEN 0 ELSE CHOOSE k \in S : \A j \in S : k <= j

\* GetResultOpNumForRmwIntrinsic: the operand (1..3) whose register the
\* result can reuse: a local overwritten by the user, else a local at its
\* last use; 0 when there is none
GetResultOpNumForRmwIntrinsic(s, user, op1, op2, op3) ==
    LET ops == <<op1, op2, op3>>
        over == MinOrZero({k \in 1..3 : /\ user # 0
                                        /\ s.nodes[user].oper = "STORE_LCL_VAR"
                                        /\ s.nodes[ops[k]].oper = "LCL_VAR"
                                        /\ s.nodes[ops[k]].ival = s.nodes[user].ival})
    IN  IF over # 0 THEN over
        ELSE MinOrZero({k \in 1..3 : /\ s.nodes[ops[k]].oper = "LCL_VAR"
                                     /\ s.nodes[ops[k]].ival = s.cfg.lastUse})

\* swap two operand slots of a TernaryLogic node and permute its control byte
SwapTernaryOperands(s, node, which) ==
    LET o == s.nodes[node].ops
        k == s.nodes[o[4]].ival
    IN  CASE which = "AC" ->
               [s EXCEPT !.nodes[node].ops = <<o[3], o[2], o[1], o[4]>>,
                         !.nodes[o[4]].ival = GetTernaryControlByteInfo(k, C, B, A)]
          [] which = "BC" ->
               [s EXCEPT !.nodes[node].ops = <<o[1], o[3], o[2], o[4]>>,
                         !.nodes[o[4]].ival = GetTernaryControlByteInfo(k, A, C, B)]
          [] which = "AB" ->
               [s EXCEPT !.nodes[node].ops = <<o[2], o[1], o[3], o[4]>>,
                         !.nodes[o[4]].ival = GetTernaryControlByteInfo(k, B, A, C)]
          [] OTHER -> s

\* the first of the operands cands (in order) that can be contained, or 0
FirstContainable(s, node, cands) ==
    LET i == MinOrZero({k \in DOMAIN cands : IsContainableHWIntrinsicOp(s, node, cands[k]).contain})
    IN  IF i = 0 THEN 0 ELSE cands[i]

\* the operand to mark reg-optional: the preference is built up from the
\* last of cands to the first
PreferredAmong(s, node, cands) ==
    LET n == Len(cands)
        pref[k \in 0..n] ==
            IF k = 0 THEN 0
            ELSE IF IsContainableHWIntrinsicOp(s, node, cands[n + 1 - k]).regOptional
                 THEN PreferredRegOptionalOperand(s, pref[k - 1], cands[n + 1 - k])
                 ELSE pref[k - 1]
    IN  pref[n]

\* the operand to contain, else the operand to mark reg-optional
ChooseContained(s, node, cands) ==
    LET first == FirstContainable(s, node, cands)
    IN  IF first # 0 THEN [contained |-> first, regOptional |-> 0]
        ELSE [contained |-> 0, regOptional |-> PreferredAmong(s, node, cands)]

CommutativeHWIntrinsics == {"AND", "OR", "XOR"}

\* mark the chosen operand contained or reg-optional
ApplyContainment(s, node, ch) ==
    IF ch.contained # 0 THEN MakeSrcContained(s, node, ch.contained)
    ELSE IF ch.regOptional # 0 THEN MakeSrcRegOptional(s, node, ch.regOptional)
    ELSE s

\* two-operand SIMD intrinsics: the chosen operand is marked and, when it is
\* op1, the operands are swapped
ContainBinaryOperand(s, node, ch) ==
    LET op1 == s.nodes[node].ops[1]
        op2 == s.nodes[node].ops[2]
    IN  IF ch.contained = op1 \/ ch.regOptional = op1
        THEN [ApplyContainment(s, node, ch) EXCEPT !.nodes[node].ops = <<op2, op1>>]
        ELSE ApplyContainment(s, node, ch)

ContainCheckHWIntrinsicBinary(s, node) ==
    ContainBinaryOperand(s, node,
        ChooseContained(s, node,
            IF s.nodes[node].hw \in CommutativeHWIntrinsics
            THEN <<s.nodes[node].ops[2], s.nodes[node].ops[1]>>
            ELSE <<s.nodes[node].ops[2]>>))

\* TernaryLogic: the chosen operand is marked and moved to the last slot
ContainTernaryOperand(s, node, ch) ==
    LET p == s.nodes[node].ops
    IN  SwapTernaryOperands(ApplyContainment(s, node, ch), node,
            IF ch.contained = p[1] \/ ch.regOptional = p[1] THEN "AC"
            ELSE IF ch.contained = p[2] \/ ch.regOptional = p[2] THEN "BC"
            ELSE "None")

\* TernaryLogic using all three inputs, the result operand already in the
\* first slot when there is one
ContainTernaryABC(s, node, resultOpNum) ==
    LET p == s.nodes[node].ops
    IN  ContainTernaryOperand(s, node,
            ChooseContained(s, node,
                IF resultOpNum # 0 THEN <<p[3], p[2]>> ELSE <<p[3], p[2], p[1]>>))

\* TernaryLogic with a contained control byte, by the inputs it uses
ContainTernaryByUseFlags(s, node, useFlags, resultOpNum) ==
    LET o == s.nodes[node].ops
    IN  CASE useFlags = {"C"} ->
               ApplyContainment(MakeSrcContained(MakeSrcContained(s, node, o[1]), node, o[2]),
                                node, ChooseContained(s, node, <<o[3]>>))
          [] useFlags = {"B", "C"} ->
               ContainTernaryOperand(MakeSrcContained(s, node, o[1]), node,
                                     ChooseContained(s, node, <<o[3], o[2]>>))
          [] useFlags = {"A", "B", "C"} ->
               ContainTernaryABC(
                   SwapTernaryOperands(s, node, CASE resultOpNum = 2 -> "AB"
                                                  [] resultOpNum = 3 -> "AC"
                                                  [] OTHER -> "None"),
                   node, resultOpNum)
          [] OTHER -> s

ContainCheckHWIntrinsicTernaryLogic(s, node) ==
    LET o == s.nodes[node].ops
    IN  IF ~IsCnsIntOrI(s, o[4]) THEN s
        ELSE ContainTernaryByUseFlags(MakeSrcContained(s, node, o[4]), node,
                 GetAllUseFlags(s.nodes[o[4]].ival),
                 GetResultOpNumForRmwIntrinsic(s, TryGetUse(s, node), o[1], o[2], o[3]))

\* the scalar intrinsics of one operand, which may come from memory
ScalarUnaryIntrinsics ==
    {"ResetLowestSetBit", "X64_ResetLowestSetBit", "ExtractLowestSetBit", "X64_ExtractLowestSetBit",
     "GetMaskUpToLowestSetBit", "X64_GetMaskUpToLowestSetBit"}

\* the comparisons whose last operand is the FloatComparisonMode
CompareWithModeIntrinsics == {"Compare", "CompareScalar"}

ContainCheckHWIntrinsic(s, node) ==
    CASE s.nodes[node].hw = "TernaryLogic" -> ContainCheckHWIntrinsicTernaryLogic(s, node)
      [] s.nodes[node].hw \in {"ShiftLeftMask", "ShiftRightMask"} ->
           IF IsCnsIntOrI(s, s.nodes[node].ops[2])
           THEN MakeSrcContained(s, node, s.nodes[node].ops[2]) ELSE s
      [] Len(s.nodes[node].ops) = 2 -> ContainCheckHWIntrinsicBinary(s, node)
      [] s.nodes[node].hw \in ScalarUnaryIntrinsics ->
           TryMakeSrcContainedOrRegOptional(s, node, s.nodes[node].ops[1])
      [] s.nodes[node].hw \in CompareWithModeIntrinsics ->
           IF IsCnsIntOrI(s, s.nodes[node].ops[3])
           THEN TryMakeSrcContainedOrRegOptional(MakeSrcContained(s, node, s.nodes[node].ops[3]),
                                                 node, s.nodes[node].ops[2])
           ELSE s
      [] s.nodes[node].hw = "Insert" ->
           IF ~IsCnsIntOrI(s, s.nodes[node].ops[3]) THEN s
           ELSE LET op1 == s.nodes[node].ops[1]
                    op2 == s.nodes[node].ops[2]
                    s1 == MakeSrcContained(s, node, s.nodes[node].ops[3])
                    s2 == IF s.nodes[node].base # "float" THEN s1
                          ELSE IF IsVectorZero(s, op1) THEN MakeSrcContained(s1, node, op1)
                          ELSE IF IsVectorZero(s, op2) THEN MakeSrcContained(s1, node, op2)
                          ELSE s1
                IN  TryMakeSrcContainedOrRegOptional(s2, node, op2)
      [] OTHER -> s

\* the end of a handler that keeps its node: containment, then the next node
ContainCheckedHWIntrinsic(s, node) ==
    [s |-> ContainCheckHWIntrinsic(s, node), next |-> gtNext(s, node)]

-----------------------------------------------------------------------------
(* LowerHWIntrinsicTernaryLogic                                            *)

\* the control bytes that act as a conditional select, with the operand
\* slot of the condition, of the value selected when it is set, and of the
\* value selected when it is clear
SelectControls ==
    {[control |-> ByteOr(ByteAnd(C, A), ByteAnd(B, ByteNot(A))), cond |-> 1, true |-> 3, false |-> 2],
     [control |-> ByteOr(ByteAnd(C, B), ByteAnd(A, ByteNot(B))), cond |-> 2, true |-> 3, false |-> 1],
     [control |-> ByteOr(ByteAnd(B, C), ByteAnd(A, ByteNot(C))), cond |-> 3, true |-> 2, false |-> 1],
     [control |-> ByteOr(ByteAnd(B, A), ByteAnd(C, ByteNot(A))), cond |-> 1, true |-> 2, false |-> 3],
     [control |-> ByteOr(ByteAnd(A, B), ByteAnd(C, ByteNot(B))), cond |-> 2, true |-> 1, false |-> 3],
     [control |-> ByteOr(ByteAnd(A, C), ByteAnd(B, ByteNot(C))), cond |-> 3, true |-> 1, false |-> 2]}

\* the mask-producing form of a vector comparison, or "Illegal"
CompareMaskId(cndId) ==
    CASE cndId = "Compare" -> "CompareMask"
      [] cndId = "CompareEqual" -> "CompareEqualMask"
      [] cndId = "CompareGreaterThan" -> "CompareGreaterThanMask"
      [] cndId = "CompareGreaterThanOrEqual" -> "CompareGreaterThanOrEqualMask"
      [] cndId = "CompareLessThan" -> "CompareLessThanMask"
      [] cndId = "CompareLessThanOrEqual" -> "CompareLessThanOrEqualMask"
      [] cndId = "CompareNotEqual" -> "CompareNotEqualMask"
      [] cndId = "CompareNotGreaterThan" -> "CompareGreaterThanMask"
      [] cndId = "CompareNotGreaterThanOrEqual" -> "CompareNotGreaterThanOrEqualMask"
      [] cndId = "CompareNotLessThan" -> "CompareNotLessThanMask"
      [] cndId = "CompareNotLessThanOrEqual" -> "CompareNotLessThanOrEqualMask"
      [] cndId = "CompareOrdered" -> "CompareOrderedMask"
      [] cndId = "CompareUnordered" -> "CompareUnorderedMask"
      [] OTHER -> "Illegal"

\* a select-like TernaryLogic becomes BlendVariableMask when its condition
\* is (or can be made) a mask; otherwise the node is left as it is
LowerTernaryLogicSelect(s, node, sel) ==
    LET o == s.nodes[node].ops
        condition == o[sel.cond]
        cn == s.nodes[condition]
        blend(t, c) ==
            Remove(ResetHWIntrinsicId(t, node, "BlendVariableMask", <<o[sel.false], o[sel.true], c>>),
                   o[4])
    IN  IF cn.oper = "HWINTRINSIC" /\ cn.hw = "ConvertMaskToVector"
        THEN IF OperIsHWIntrinsic(s, cn.ops[1]) THEN blend(Remove(s, condition), cn.ops[1]) ELSE s
        ELSE IF cn.typ # "mask"
             THEN IF cn.oper = "HWINTRINSIC" /\ CompareMaskId(cn.hw) # "Illegal"
                  THEN blend([s EXCEPT !.nodes[condition].typ = "mask",
                                       !.nodes[condition].hw = CompareMaskId(cn.hw)], condition)
                  ELSE s
             ELSE IF cn.oper = "HWINTRINSIC" THEN blend(s, condition) ELSE s

\* a faulty normalisation: the operands are swapped, the control byte is not
NormalizeTernaryOperandsKeepingControl(s, node, useFlags) ==
    LET o == s.nodes[node].ops
    IN  CASE useFlags = {"A"} -> [s EXCEPT !.nodes[node].ops = <<o[3], o[2], o[1], o[4]>>]
          [] useFlags = {"B"} -> [s EXCEPT !.nodes[node].ops = <<o[1], o[3], o[2], o[4]>>]
          [] useFlags = {"A", "B"} -> [s EXCEPT !.nodes[node].ops = <<o[3], o[1], o[2], o[4]>>]
          [] useFlags = {"A", "C"} -> [s EXCEPT !.nodes[node].ops = <<o[2], o[1], o[3], o[4]>>]
          [] OTHER -> s

\* the operand swaps that move the unused inputs to the front
NormalizeTernaryOperands(s, node, useFlags) ==
    LET o == s.nodes[node].ops
        k == s.nodes[o[4]].ival
    IN  CASE useFlags = {"A"} ->
               [s EXCEPT !.nodes[node].ops = <<o[3], o[2], o[1], o[4]>>,
                         !.nodes[o[4]].ival = GetTernaryControlByteInfo(k, C, B, A)]
          [] useFlags = {"B"} ->
               [s EXCEPT !.nodes[node].ops = <<o[1], o[3], o[2], o[4]>>,
                         !.nodes[o[4]].ival = GetTernaryControlByteInfo(k, A, C, B)]
          [] useFlags = {"A", "B"} ->
               [s EXCEPT !.nodes[node].ops = <<o[3], o[1], o[2], o[4]>>,
                         !.nodes[o[4]].ival = GetTernaryControlByteInfo(k, B, C, A)]
          [] useFlags = {"A", "C"} ->
               [s EXCEPT !.nodes[node].ops = <<o[2], o[1], o[3], o[4]>>,
                         !.nodes[o[4]].ival = GetTernaryControlByteInfo(k, B, A, C)]
          [] OTHER -> s

\* the inputs used once the operands are swapped
NormalizedUseFlags(useFlags) ==
    CASE useFlags = {"A"} -> {"C"}
      [] useFlags = {"B"} -> {"C"}
      [] useFlags = {"A", "B"} -> {"B", "C"}
      [] useFlags = {"A", "C"} -> {"B", "C"}
      [] OTHER -> useFlags

\* a new vector constant of node's type, linked in just before node
NewCnsVecBefore(s, node, val) ==
    InsertBefore(NewNode(s, [Node("CNS_VEC", "", <<>>, val, s.nodes[node].typ)
                                EXCEPT !.size = s.nodes[node].size, !.base = s.nodes[node].base]),
                 node, NewId(s))

\* an operand that the control byte ignores is replaced by a zero constant
ReplaceOperandWithZero(s, node, slot) ==
    IF IsCnsVec(s, s.nodes[node].ops[slot]) THEN s
    ELSE [NewCnsVecBefore(SetUnusedValue(s, s.nodes[node].ops[slot]), node, 0)
             EXCEPT !.nodes[node].ops[slot] = NewId(s)]

\* the node is replaced by replacementNode: its user is rewired (or the
\* replacement marked unused), and the node and its control byte unlinked
ReplaceTernaryLogic(s, node, replacementNode) ==
    [s |-> Remove(Remove(ReplaceUseOrMarkUnused(s, node, replacementNode),
                         s.nodes[node].ops[4]), node),
     next |-> gtNext(s, node)]

\* normalised operands: a control byte that uses no input stands for a
\* constant, and the control byte C for the third operand itself
TernaryLogicIsReplaced(s, node, useFlags) ==
    \/ useFlags = {}
    \/ useFlags = {"C"} /\ s.nodes[s.nodes[node].ops[4]].ival = C

LowerTernaryLogicReplaced(s, node, useFlags) ==
    LET p == s.nodes[node].ops
    IN  IF useFlags = {}
        THEN ReplaceTernaryLogic(
                 NewCnsVecBefore(SetUnusedValue(SetUnusedValue(SetUnusedValue(s, p[1]), p[2]), p[3]),
                                 node, IF s.nodes[p[4]].ival = 0 THEN 0 ELSE 255),
                 node, NewId(s))
        ELSE ReplaceTernaryLogic(SetUnusedValue(SetUnusedValue(s, p[1]), p[2]), node, p[3])

\* normalised operands: the inputs that the control byte ignores become zero
LowerTernaryLogicUnused(s, node, useFlags) ==
    CASE useFlags = {"C"} -> ReplaceOperandWithZero(ReplaceOperandWithZero(s, node, 1), node, 2)
      [] useFlags = {"B", "C"} -> ReplaceOperandWithZero(s, node, 1)
      [] OTHER -> s

\* a TernaryLogic that is not a select, its operands normalised
LowerTernaryLogicNormalized(s, node, useFlags) ==
    IF TernaryLogicIsReplaced(s, node, useFlags)
    THEN LowerTernaryLogicReplaced(s, node, useFlags)
    ELSE ContainCheckedHWIntrinsic(LowerTernaryLogicUnused(s, node, useFlags), node)

LowerHWIntrinsicTernaryLogic(s, node) ==
    LET o == s.nodes[node].ops
        control == s.nodes[o[4]].ival
        sel == {r \in SelectControls : r.control = control}
    IN  IF IsCnsIntOrI(s, o[4]) /\ sel = {}
        THEN LowerTernaryLogicNormalized(NormalizeTernaryOperands(s, node, GetAllUseFlags(control)),
                                         node, NormalizedUseFlags(GetAllUseFlags(control)))
        ELSE ContainCheckedHWIntrinsic(
                 IF IsCnsIntOrI(s, o[4]) THEN LowerTernaryLogicSelect(s, node, CHOOSE r \in sel : TRUE)
                 ELSE s,
                 node)

-----------------------------------------------------------------------------
(* LowerHWIntrinsic: fusion of bitwise operators                           *)

\* AND(NOT(x), y) becomes AND_NOT(x, y): the instruction computes ~op1 & op2
LowerNotAndToAndNot(s, node, user) ==
    LET op1 == s.nodes[node].ops[1]
        op2 == s.nodes[node].ops[2]
        u == s.nodes[user].ops
        other == IF u[2] = node THEN u[1] ELSE u[2]
    IN  [s |-> ResetHWIntrinsicId(Remove(Remove(s, op2), node), user, "AND_NOT", <<op1, other>>),
         next |-> gtNext(s, node)]

\* a faulty composition: the inner operator is always taken to consume the
\* first two operands, also when it sits on the right of an AND_NOT
FusedControlByteIgnoringSide(oper, userOper, isOperNot, isUserNot, firstOpUseFlags) ==
    IF isUserNot THEN ByteNot(GetTernaryControlByte(oper, B, C))
    ELSE IF isOperNot THEN GetTernaryControlByte(userOper, ByteNot(B), C)
    ELSE GetTernaryControlByte(userOper, GetTernaryControlByte(oper, A, B), C)

\* a faulty composition: the two operators are applied in the wrong order
FusedControlByteOuterFirst(oper, userOper, isOperNot, isUserNot, firstOpUseFlags) ==
    IF isUserNot THEN ByteNot(GetTernaryControlByte(oper, B, C))
    ELSE IF isOperNot THEN GetTernaryControlByte(userOper, ByteNot(B), C)
    ELSE GetTernaryControlByte(oper, GetTernaryControlByte(userOper, A, B), C)

\* the control byte of the TernaryLogic that replaces userOper over oper;
\* flags says which two operands the inner operator consumes
FusedControlByte(oper, userOper, isOperNot, isUserNot, firstOpUseFlags) ==
    IF isUserNot THEN ByteNot(GetTernaryControlByte(oper, B, C))
    ELSE IF isOperNot THEN
        IF firstOpUseFlags = "AB"
        THEN GetTernaryControlByte(userOper, ByteNot(B), C)
        ELSE GetTernaryControlByte(userOper, B, ByteNot(C))
    ELSE IF firstOpUseFlags = "AB"
         THEN GetTernaryControlByte(userOper, GetTernaryControlByte(oper, A, B), C)
         ELSE GetTernaryControlByte(userOper, A, GetTernaryControlByte(oper, B, C))

\* the operands of the TernaryLogic, from the operands as first collected
FusedOperands(ops, isOperNot, isUserNot, firstOpUseFlags) ==
    IF isUserNot THEN <<ops[3], ops[1], ops[2]>>
    ELSE IF isOperNot THEN
        IF firstOpUseFlags = "AB" THEN <<ops[2], ops[1], ops[3]>> ELSE <<ops[3], ops[1], ops[2]>>
    ELSE ops

\* a faulty double-NOT: the outer all-bits-set constant is left in the range
LowerDoubleNotKeepingConstant(s, node, user, ops, nextNode) ==
    LET n1 == IF nextNode = user THEN gtNext(s, nextNode) ELSE nextNode
    IN  [s |-> Remove(Remove(ReplaceUseOrMarkUnused(s, user, ops[2]), ops[3]), user), next |-> n1]

\* a faulty double-NOT: the node that followed the inner XOR is returned as
\* it was, though it may be the outer constant or the outer XOR
LowerDoubleNotReturningNext(s, node, user, ops, nextNode) ==
    [s |-> Remove(Remove(Remove(ReplaceUseOrMarkUnused(s, user, ops[2]), ops[3]), ops[1]), user),
     next |-> nextNode]

\* NOT(NOT(x)): the consumer gets x; both XORs and both constants go
LowerDoubleNot(s, node, user, ops, nextNode) ==
    LET n1 == IF nextNode = ops[1] THEN gtNext(s, nextNode) ELSE nextNode
        n2 == IF n1 = user THEN gtNext(s, n1) ELSE n1
    IN  [s |-> Remove(Remove(Remove(ReplaceUseOrMarkUnused(s, user, ops[2]), ops[3]), ops[1]), user),
         next |-> n2]

\* the user becomes TernaryLogic(ops, control), the control byte a new
\* constant linked in before it
MakeTernaryLogic(s, user, ops, control) ==
    ResetHWIntrinsicId(InsertBefore(NewNode(s, Node("CNS_INT", "", <<>>, control, "int")),
                                    user, NewId(s)),
                       user, "TernaryLogic", ops \o <<NewId(s)>>)

FuseTernaryLogic(s, node, user) ==
    LET oper == GetOperForHWIntrinsicId(s, node)
        userOper == GetOperForHWIntrinsicId(s, user)
        n == s.nodes[node].ops
        u == s.nodes[user].ops
        isOperNot == oper = "XOR" /\ IsVectorAllBitsSet(s, n[2])
        firstOpUseFlags == IF u[2] = node /\ userOper = "AND_NOT" THEN "BC" ELSE "AB"
        ops0 == IF u[2] = node
                THEN IF userOper = "AND_NOT" THEN <<u[1], n[1], n[2]>> ELSE <<n[1], n[2], u[1]>>
                ELSE <<n[1], n[2], u[2]>>
        isUserNot == userOper = "XOR" /\ IsVectorAllBitsSet(s, ops0[3])
    IN  IF isUserNot /\ isOperNot
        THEN LowerDoubleNot(Remove(s, node), node, user,
                            FusedOperands(ops0, isOperNot, isUserNot, firstOpUseFlags), gtNext(s, node))
        ELSE [s |-> MakeTernaryLogic(Remove(s, node), user,
                        FusedOperands(ops0, isOperNot, isUserNot, firstOpUseFlags),
                        FusedControlByte(oper, userOper, isOperNot, isUserNot, firstOpUseFlags)),
              next |-> gtNext(s, node)]

\* a NOT with no bitwise user: an existing TernaryLogic operand is inverted
\* in place, else the node becomes TernaryLogic(0, 0, op1, ~C)
LowerNot(s, node) ==
    LET op1 == s.nodes[node].ops[1]
        op2 == s.nodes[node].ops[2]
        opControl == s.nodes[op1].ops[4]
    IN  IF /\ OperIsHWIntrinsic(s, op1)
           /\ s.nodes[op1].hw = "TernaryLogic"
           /\ IsCnsIntOrI(s, opControl)
        THEN [s |-> Remove(ReplaceUseOrMarkUnused(
                        [Remove(s, op2) EXCEPT !.nodes[opControl].ival = ByteNot(@)], node, op1), node),
              next |-> gtNext(Remove(s, op2), node)]
        ELSE LowerNode(
                 ResetHWIntrinsicId(
                     InsertBefore(
                         NewNode(NewCnsVecBefore(NewCnsVecBefore(Remove(s, op2), node, 0), node, 0),
                                 Node("CNS_INT", "", <<>>, ByteNot(C), "int")),
                         node, NewId(s) + 2),
                     node, "TernaryLogic", <<NewId(s) + 1, NewId(s), op1, NewId(s) + 2>>),
                 node)

-----------------------------------------------------------------------------
(* Scalar types and operators                                              *)

varTypeIsFloating(t) == t \in {"float", "double"}

varTypeIsSmall(t) == t \in {"byte", "ubyte", "short", "ushort"}

varTypeIsByte(t) == t \in {"byte", "ubyte"}

varTypeIsIntegral(t) == t \in {"byte", "ubyte", "short", "ushort", "int", "uint", "long", "ulong"}

varTypeIsUnsigned(t) == t \in {"ubyte", "ushort", "uint", "ulong"}

genTypeSize(t) ==
    CASE t \in {"byte", "ubyte"} -> 1
      [] t \in {"short", "ushort"} -> 2
      [] t \in {"int", "uint", "float"} -> 4
      [] OTHER -> 8

OperIsShiftOrRotate(oper) == oper \in {"LSH", "RSH", "RSZ", "ROL", "ROR"}

OperIsCommutative(oper) == oper \in {"ADD", "MUL", "AND", "OR", "XOR"}

OperIsBinary(oper) ==
    OperIsCommutative(oper) \/ OperIsShiftOrRotate(oper) \/ oper \in {"SUB", "EQ", "NE"}

OperIsUnary(oper) == oper \in {"NOT", "NEG", "IND", "CAST"}

\* the binary operators that have a read-modify-write memory form
OperIsRMWMemOp(oper) == oper \in {"ADD", "SUB", "AND", "OR", "XOR"} \/ OperIsShiftOrRotate(oper)

IsContainableImmed(s, parentNode, childNode) == IsCnsIntOrI(s, childNode)

-----------------------------------------------------------------------------
(* The read-modify-write detector                                          *)

\* the dataflow tree rooted at n
RECURSIVE TreeOf(_, _)

TreeOf(s, n) == {n} \cup UNION {TreeOf(s, s.nodes[n].ops[k]) : k \in DOMAIN s.nodes[n].ops}

\* two leaves that name the same local or the same constant
NodesAreEquivalentLeaves(s, a, b) ==
    /\ s.nodes[a].oper = s.nodes[b].oper
    /\ s.nodes[a].oper \in {"LCL_VAR", "CNS_INT"}
    /\ s.nodes[a].ival = s.nodes[b].ival

\* the load and the store have the same size and address the same location:
\* equivalent leaves, or address modes over equivalent leaves
IndirsAreEquivalent(s, candidate, storeInd) ==
    LET a == s.nodes[candidate].ops[1]
        b == s.nodes[storeInd].ops[1]
    IN  /\ genTypeSize(s.nodes[candidate].typ) = genTypeSize(s.nodes[storeInd].typ)
        /\ \/ NodesAreEquivalentLeaves(s, a, b)
           \/ /\ s.nodes[a].oper = "LEA" /\ s.nodes[b].oper = "LEA"
              /\ s.nodes[a].ival = s.nodes[b].ival
              /\ Len(s.nodes[a].ops) = Len(s.nodes[b].ops)
              /\ \A k \in DOMAIN s.nodes[a].ops :
                     NodesAreEquivalentLeaves(s, s.nodes[a].ops[k], s.nodes[b].ops[k])

\* the nodes whose scratch bit is set
MarkedNodes(s) == {n \in DOMAIN s.nodes : s.nodes[n].mark}

SetMarkedNodes(s, mark) ==
    [s EXCEPT !.nodes = [n \in DOMAIN @ |-> [@[n] EXCEPT !.mark = n \in mark]]]

\* a faulty return: the marks that are left are not cleared
KeepLeftoverMarks(s, mark, markCount, pos) == mark

\* the loop that runs before the walk returns false on an interference: from
\* the node at pos backwards, marked nodes are unmarked until none is left
RECURSIVE ClearLeftoverMarks(_, _, _, _)

ClearLeftoverMarks(s, mark, markCount, pos) ==
    IF markCount = 0 \/ pos = 0 THEN mark
    ELSE IF s.range[pos] \in mark
         THEN ClearLeftoverMarks(s, mark \ {s.range[pos]}, markCount - 1, pos - 1)
         ELSE ClearLeftoverMarks(s, mark, markCount, pos - 1)

\* the loop of the walk, at the node at pos: a node that is not marked adds
\* its effects to the effects seen; a marked node is unmarked and, unless
\* the effects seen interfere with it, its operands are marked. leftover is
\* the number of marks left when an interference is found
RECURSIVE RMWIndirWalk(_, _, _, _, _)

RMWIndirWalk(s, mark, markCount, pos, effects) ==
    IF markCount = 0 \/ pos = 0
    THEN [ret |-> TRUE, mark |-> mark, exit |-> "success", leftover |-> 0]
    ELSE LET node == s.range[pos]
             operands == s.nodes[node].ops
         IN  IF node \notin mark THEN RMWIndirWalk(s, mark, markCount, pos - 1, effects \cup {node})
             ELSE IF \E c \in effects : InterferesWith(s, node, c)
                  THEN [ret |-> FALSE,
                        mark |-> ClearLeftoverMarks(s, mark \ {node}, markCount - 1, pos),
                        exit |-> "interference", leftover |-> markCount - 1]
                  ELSE RMWIndirWalk(s, (mark \ {node}) \cup {operands[k] : k \in DOMAIN operands},
                                    markCount - 1 + Len(operands), pos - 1, effects)

\* IsRMWIndirCandidate with the marks it leaves: an operand that is no load
\* of the store's destination is rejected before anything is marked; else
\* the operand is marked and the range is walked backwards from the node
\* before the store
IsRMWIndirCandidateWalk(s, operand, storeInd) ==
    LET rejected == [ret |-> FALSE, mark |-> MarkedNodes(s), exit |-> "rejected", leftover |-> 0]
    IN  IF s.nodes[operand].oper # "IND" THEN rejected
        ELSE IF \/ s.nodes[s.nodes[operand].ops[1]].oper # s.nodes[s.nodes[storeInd].ops[1]].oper
                \/ ~IndirsAreEquivalent(s, operand, storeInd)
             THEN rejected
        ELSE RMWIndirWalk(s, MarkedNodes(s) \cup {operand}, 1, Pos(s, storeInd) - 1, {})

\* a faulty candidate test: the load's address is not compared with the
\* store's destination
IsRMWIndirCandidateAnyAddress(s, operand, storeInd) ==
    /\ s.nodes[operand].oper = "IND"
    /\ \A n \in TreeOf(s, operand) :
           \A i \in (Pos(s, n) + 1)..(Pos(s, storeInd) - 1) :
               s.range[i] \notin TreeOf(s, operand) => ~InterferesWith(s, n, s.range[i])

\* operand is a load of the store's destination whose whole tree can be
\* moved down to the store: no node outside the tree, placed after a node of
\* the tree and before the store, interferes with that node
IsRMWIndirCandidate(s, operand, storeInd) ==
    /\ s.nodes[operand].oper = "IND"
    /\ s.nodes[s.nodes[operand].ops[1]].oper = s.nodes[s.nodes[storeInd].ops[1]].oper
    /\ IndirsAreEquivalent(s, operand, storeInd)
    /\ \A n \in TreeOf(s, operand) :
           \A i \in (Pos(s, n) + 1)..(Pos(s, storeInd) - 1) :
               s.range[i] \notin TreeOf(s, operand) => ~InterferesWith(s, n, s.range[i])

IsRMWMemoryOp(s, storeInd) == s.nodes[storeInd].rmw \in {"RMW_DST_IS_OP1", "RMW_DST_IS_OP2"}

IsRMWStatusUnknown(s, storeInd) == s.nodes[storeInd].rmw = "RMW_STATUS_UNKNOWN"

SetRMWStatus(s, storeInd, status) == [s EXCEPT !.nodes[storeInd].rmw = status]

SetRMWStatusDefault(s, storeInd) == SetRMWStatus(s, storeInd, "RMW_STATUS_UNKNOWN")

\* a faulty detection: a shift or rotate is recognised whatever the type of
\* the store
RMWStatusOfBinaryOfAnyType(s, storeInd, indirSrc) ==
    LET oper == s.nodes[indirSrc].oper
        binOp == s.nodes[indirSrc].ops
    IN  IF ~OperIsRMWMemOp(oper) THEN "RMW_UNSUPPORTED_OPER"
        ELSE IF OperIsCommutative(oper) /\ IsRMWIndirCandidate(s, binOp[2], storeInd)
             THEN "RMW_DST_IS_OP2"
        ELSE IF IsRMWIndirCandidate(s, binOp[1], storeInd) THEN "RMW_DST_IS_OP1"
        ELSE "RMW_UNSUPPORTED_ADDR"

\* the status of a store whose value is the binary operator indirSrc
RMWStatusOfBinary(s, storeInd, indirSrc) ==
    LET oper == s.nodes[indirSrc].oper
        binOp == s.nodes[indirSrc].ops
    IN  IF ~OperIsRMWMemOp(oper) THEN "RMW_UNSUPPORTED_OPER"
        ELSE IF OperIsShiftOrRotate(oper) /\ varTypeIsSmall(s.nodes[storeInd].typ)
             THEN "RMW_UNSUPPORTED_TYPE"
        ELSE IF OperIsCommutative(oper) /\ IsRMWIndirCandidate(s, binOp[2], storeInd)
             THEN "RMW_DST_IS_OP2"
        ELSE IF IsRMWIndirCandidate(s, binOp[1], storeInd) THEN "RMW_DST_IS_OP1"
        ELSE "RMW_UNSUPPORTED_ADDR"

\* the status of a store whose value is the unary operator indirSrc
RMWStatusOfUnary(s, storeInd, indirSrc) ==
    LET oper == s.nodes[indirSrc].oper
        unOp == s.nodes[indirSrc].ops
    IN  IF oper # "NOT" /\ oper # "NEG" THEN "RMW_UNSUPPORTED_OPER"
        ELSE IF s.nodes[unOp[1]].oper # "IND" THEN "RMW_UNSUPPORTED_ADDR"
        ELSE IF IsRMWIndirCandidate(s, unOp[1], storeInd) THEN "RMW_DST_IS_OP1"
        ELSE "RMW_UNSUPPORTED_ADDR"

\* a recognised pattern still needs the destination address to be movable
\* down to the store
RMWStatusChecked(s, storeInd, status) ==
    IF /\ status \in {"RMW_DST_IS_OP1", "RMW_DST_IS_OP2"}
       /\ ~IsSafeToContainMem(s, storeInd, s.nodes[storeInd].ops[1])
    THEN "RMW_UNSUPPORTED_ADDR"
    ELSE status

\* the status of a store whose status is not known yet
RMWStatusOf(s, storeInd) ==
    LET indirDst == s.nodes[storeInd].ops[1]
        indirSrc == s.nodes[storeInd].ops[2]
        oper == s.nodes[indirSrc].oper
    IN  IF s.nodes[indirDst].oper \notin {"LEA", "LCL_VAR", "CNS_INT"} THEN "RMW_UNSUPPORTED_ADDR"
        ELSE IF s.nodes[indirSrc].ovf THEN "RMW_UNSUPPORTED_OPER"
        ELSE IF OperIsBinary(oper)
             THEN RMWStatusChecked(s, storeInd, RMWStatusOfBinary(s, storeInd, indirSrc))
        ELSE IF OperIsUnary(oper)
             THEN RMWStatusChecked(s, storeInd, RMWStatusOfUnary(s, storeInd, indirSrc))
        ELSE "RMW_UNSUPPORTED_OPER"

\* the marks on the nodes when the status of the store has been computed:
\* the second operand of a commutative operator is walked first, the first
\* operand when that walk fails or the operator is not commutative
MarksOfRMWDetection(s, storeInd) ==
    LET indirDst == s.nodes[storeInd].ops[1]
        indirSrc == s.nodes[storeInd].ops[2]
        oper == s.nodes[indirSrc].oper
        ops == s.nodes[indirSrc].ops
        walk2 == IsRMWIndirCandidateWalk(s, ops[2], storeInd)
    IN  IF s.nodes[indirDst].oper \notin {"LEA", "LCL_VAR", "CNS_INT"} \/ s.nodes[indirSrc].ovf
        THEN MarkedNodes(s)
        ELSE IF OperIsBinary(oper)
             THEN IF \/ ~OperIsRMWMemOp(oper)
                     \/ OperIsShiftOrRotate(oper) /\ varTypeIsSmall(s.nodes[storeInd].typ)
                  THEN MarkedNodes(s)
                  ELSE IF ~OperIsCommutative(oper)
                       THEN IsRMWIndirCandidateWalk(s, ops[1], storeInd).mark
                  ELSE IF walk2.ret THEN walk2.mark
                  ELSE IsRMWIndirCandidateWalk(SetMarkedNodes(s, walk2.mark), ops[1], storeInd).mark
        ELSE IF oper \in {"NOT", "NEG"} /\ s.nodes[ops[1]].oper = "IND"
             THEN IsRMWIndirCandidateWalk(s, ops[1], storeInd).mark
        ELSE MarkedNodes(s)

\* IsRMWMemOpRootedAtStoreInd caches its verdict in the store: a status
\* that is already known is kept; IsRMWMemoryOp then reads the verdict
IsRMWMemOpRootedAtStoreInd(s, storeInd) ==
    IF IsRMWStatusUnknown(s, storeInd)
    THEN SetRMWStatus(SetMarkedNodes(s, MarksOfRMWDetection(s, storeInd)), storeInd,
                      RMWStatusOf(s, storeInd))
    ELSE s

\* the load of the destination among the operands of the store's value
RMWIndirCandidate(s, storeInd) ==
    LET indirSrc == s.nodes[storeInd].ops[2]
    IN  IF s.nodes[storeInd].rmw = "RMW_DST_IS_OP2"
        THEN s.nodes[indirSrc].ops[2] ELSE s.nodes[indirSrc].ops[1]

\* the other operand of the store's value (the load itself for a unary one)
RMWIndirOpSource(s, storeInd) ==
    LET indirSrc == s.nodes[storeInd].ops[2]
    IN  IF OperIsBinary(s.nodes[indirSrc].oper) /\ s.nodes[storeInd].rmw = "RMW_DST_IS_OP1"
        THEN s.nodes[indirSrc].ops[2] ELSE s.nodes[indirSrc].ops[1]

\* a faulty marking: only the store's value is marked contained
RMWContainedValueOnly(s, storeInd) == {s.nodes[storeInd].ops[2]}

\* the nodes that a recognised read-modify-write store marks contained: its
\* value, the load, the load's address (with the base of an address mode),
\* and the destination address when it is an address mode or a constant
RMWContainedNodes(s, storeInd) ==
    LET indirCandidateChild == s.nodes[RMWIndirCandidate(s, storeInd)].ops[1]
    IN  {s.nodes[storeInd].ops[2], RMWIndirCandidate(s, storeInd), indirCandidateChild}
            \cup (IF s.nodes[indirCandidateChild].oper = "LEA"
                  THEN {s.nodes[indirCandidateChild].ops[k] : k \in DOMAIN s.nodes[indirCandidateChild].ops}
                           \cup {s.nodes[storeInd].ops[1]}
                  ELSE IF IsCnsIntOrI(s, indirCandidateChild)
                       THEN {s.nodes[storeInd].ops[1]} ELSE {})

\* a containable memory operand other than the load loses its containment
RMWClearedNodes(s, storeInd) ==
    IF /\ OperIsBinary(s.nodes[s.nodes[storeInd].ops[2]].oper)
       /\ IsContainableMemoryOp(s, RMWIndirOpSource(s, storeInd))
    THEN {RMWIndirOpSource(s, storeInd)} ELSE {}

\* the markings of a store whose status is known: none unless it is a
\* read-modify-write operation
MarkRMWMemOp(s, storeInd) ==
    LET operands == {s.nodes[s.nodes[storeInd].ops[2]].ops[k] :
                        k \in DOMAIN s.nodes[s.nodes[storeInd].ops[2]].ops}
    IN  IF ~IsRMWMemoryOp(s, storeInd) THEN s
        ELSE [s EXCEPT !.nodes =
                [n \in DOMAIN @ |->
                    [@[n] EXCEPT
                        !.regOpt = @ /\ n \notin operands,
                        !.contained = \/ n \in RMWContainedNodes(s, storeInd)
                                      \/ @ /\ n \notin RMWClearedNodes(s, storeInd)]]]

\* LowerRMWMemOp: the status is computed and a read-modify-write store has
\* its inner tree marked; IsRMWMemoryOp of the result is the value returned
LowerRMWMemOp(s, storeInd) == MarkRMWMemOp(IsRMWMemOpRootedAtStoreInd(s, storeInd), storeInd)

\* the address of a load or store: a constant, or an address mode that can
\* be moved down to the indirection, is contained
ContainCheckIndir(s, node) ==
    LET addr == s.nodes[node].ops[1]
    IN  IF IsCnsIntOrI(s, addr) THEN MakeSrcContained(s, node, addr)
        ELSE IF s.nodes[addr].oper = "LEA" /\ IsInvariantInRange(s, addr, node)
             THEN MakeSrcContained(s, node, addr)
        ELSE s

IsIntegralConst(s, n, v) == IsCnsIntOrI(s, n) /\ s.nodes[n].ival = v

\* a faulty check: every immediate value is contained
ContainCheckStoreIndirOfEveryImmed(s, node) ==
    LET src == s.nodes[node].ops[2]
    IN  ContainCheckIndir(
            IF IsContainableImmed(s, node, src) THEN MakeSrcContained(s, node, src) ELSE s,
            node)

\* an immediate value is contained, except a zero stored at int size or more
ContainCheckStoreIndir(s, node) ==
    LET src == s.nodes[node].ops[2]
    IN  ContainCheckIndir(
            IF /\ IsContainableImmed(s, node, src)
               /\ (~IsIntegralConst(s, src, 0) \/ varTypeIsSmall(s.nodes[node].typ))
            THEN MakeSrcContained(s, node, src) ELSE s,
            node)

\* a byte store of a flag value stores the value as a byte
RetypeStoredSetCC(s, node) ==
    IF /\ varTypeIsByte(s.nodes[node].typ)
       /\ s.nodes[s.nodes[node].ops[2]].oper \in {"EQ", "NE", "SETCC"}
    THEN [s EXCEPT !.nodes[s.nodes[node].ops[2]].typ = "byte"] ELSE s

\* the store after the read-modify-write recognition (none for a floating
\* type) has run
LowerStoreIndirChecked(s, node) ==
    IF ~varTypeIsFloating(s.nodes[node].typ) /\ IsRMWMemoryOp(s, node) THEN s
    ELSE ContainCheckStoreIndir(RetypeStoredSetCC(s, node), node)

\* a faulty lowering: the recognition runs for stores of every type
LowerStoreIndirAlsoFloating(s, node) ==
    [s |-> LowerStoreIndirChecked(LowerRMWMemOp(SetRMWStatusDefault(s, node), node), node),
     next |-> gtNext(s, node)]

LowerStoreIndir(s, node) ==
    [s |-> LowerStoreIndirChecked(
               IF ~varTypeIsFloating(s.nodes[node].typ)
               THEN LowerRMWMemOp(SetRMWStatusDefault(s, node), node)
               ELSE SetRMWStatusDefault(s, node),
               node),
     next |-> gtNext(s, node)]

-----------------------------------------------------------------------------
(* Containment of scalar operands                                          *)

\* one operand of a binary operator may be left to the register allocator
SetRegOptionalForBinOp(s, tree, isSafeToMarkOp1, isSafeToMarkOp2) ==
    LET op1 == s.nodes[tree].ops[1]
        op2 == s.nodes[tree].ops[2]
        op1Legal == /\ isSafeToMarkOp1
                    /\ OperIsCommutative(s.nodes[tree].oper)
                    /\ s.nodes[op1].typ = s.nodes[tree].typ
        op2Legal == isSafeToMarkOp2 /\ s.nodes[op2].typ = s.nodes[tree].typ
    IN  IF op1Legal /\ op2Legal
        THEN MakeSrcRegOptional(s, tree, PreferredRegOptionalOperand(s, op1, op2))
        ELSE IF op1Legal THEN MakeSrcRegOptional(s, tree, op1)
        ELSE IF op2Legal THEN MakeSrcRegOptional(s, tree, op2)
        ELSE s

IsContainableMemoryOpSize(s, node, op) == genTypeSize(s.nodes[op].typ) = genTypeSize(s.nodes[node].typ)

IsCnsNonZeroFltOrDbl(s, n) == s.nodes[n].oper = "CNS_DBL" /\ s.nodes[n].ival # 0

\* a non-zero constant, or a load that can be moved down to node
ContainFloatOperand(s, node, op) ==
    IF IsCnsNonZeroFltOrDbl(s, op) THEN MakeSrcContained(s, node, op)
    ELSE IF IsContainableMemoryOp(s, op) /\ IsSafeToContainMem(s, node, op)
         THEN MakeSrcContained(s, node, op)
    ELSE s

ContainFloatOp1(s, node) ==
    IF ~s.nodes[s.nodes[node].ops[2]].contained /\ OperIsCommutative(s.nodes[node].oper)
    THEN ContainFloatOperand(s, node, s.nodes[node].ops[1]) ELSE s

ContainFloatRegOptional(s, node) ==
    IF ~s.nodes[s.nodes[node].ops[1]].contained /\ ~s.nodes[s.nodes[node].ops[2]].contained
    THEN SetRegOptionalForBinOp(s, node, IsSafeToMarkRegOptional(s, node, s.nodes[node].ops[1]),
                                IsSafeToMarkRegOptional(s, node, s.nodes[node].ops[2]))
    ELSE s

ContainCheckFloatBinary(s, node) ==
    ContainFloatRegOptional(ContainFloatOp1(ContainFloatOperand(s, node, s.nodes[node].ops[2]), node),
                            node)

\* the store that tree is the value of, when tree has a load among its
\* operands; 0 when there is none
RMWStoreOfBinOp(s, tree) ==
    LET user == TryGetUse(s, tree)
    IN  IF /\ \E k \in 1..2 : s.nodes[s.nodes[tree].ops[k]].oper = "IND"
           /\ user # 0
           /\ s.nodes[user].oper = "STOREIND"
           /\ s.nodes[user].ops[2] = tree
        THEN user ELSE 0

\* IsBinOpInRMWStoreInd computes and caches the status of the store
CacheRMWStatus(s, tree) ==
    IF RMWStoreOfBinOp(s, tree) # 0
    THEN IsRMWMemOpRootedAtStoreInd(s, RMWStoreOfBinOp(s, tree)) ELSE s

\* the value IsBinOpInRMWStoreInd returned, read from the cached status
IsBinOpInRMWStoreInd(s, tree) ==
    RMWStoreOfBinOp(s, tree) # 0 /\ IsRMWMemoryOp(s, RMWStoreOfBinOp(s, tree))

\* a load that has the size of node and can be moved down to it
IsContainableLoad(s, node, op) ==
    /\ IsContainableMemoryOpSize(s, node, op)
    /\ IsContainableMemoryOp(s, op)
    /\ IsSafeToContainMem(s, node, op)

\* an integer operator whose second operand is not an immediate
ContainCheckBinaryOperands(s, node) ==
    LET op1 == s.nodes[node].ops[1]
        op2 == s.nodes[node].ops[2]
        isCommutative == OperIsCommutative(s.nodes[node].oper)
    IN  IF IsBinOpInRMWStoreInd(s, node) THEN s
        ELSE IF IsContainableLoad(s, node, op2) THEN MakeSrcContained(s, node, op2)
        ELSE IF isCommutative /\ IsContainableImmed(s, node, op1) THEN MakeSrcContained(s, node, op1)
        ELSE IF isCommutative /\ IsContainableLoad(s, node, op1) THEN MakeSrcContained(s, node, op1)
        ELSE SetRegOptionalForBinOp(s, node, IsSafeToMarkRegOptional(s, node, op1),
                                    IsSafeToMarkRegOptional(s, node, op2))

ContainCheckBinary(s, node) ==
    IF varTypeIsFloating(s.nodes[node].typ) THEN ContainCheckFloatBinary(s, node)
    ELSE IF IsContainableImmed(s, node, s.nodes[node].ops[2])
         THEN MakeSrcContained(s, node, s.nodes[node].ops[2])
    ELSE ContainCheckBinaryOperands(CacheRMWStatus(s, node), node)

\* the source of a shift: with BMI2 a shift by a register (a rotate by an
\* immediate) can take its source from memory
ContainShiftSource(s, node) ==
    LET source == s.nodes[node].ops[1]
        shiftBy == s.nodes[node].ops[2]
    IN  IF /\ ~s.nodes[source].contained
           /\ genTypeSize(s.nodes[source].typ) >= genTypeSize(s.nodes[node].typ)
           /\ s.nodes[shiftBy].contained # (s.nodes[node].oper \in {"LSH", "RSH", "RSZ"})
           /\ s.cfg.avx2
        THEN IF IsContainableMemoryOp(s, source) /\ IsSafeToContainMem(s, node, source)
             THEN MakeSrcContained(s, node, source)
             ELSE IF IsSafeToMarkRegOptional(s, node, source)
                  THEN MakeSrcRegOptional(s, node, source) ELSE s
        ELSE s

ContainCheckShiftRotate(s, node) ==
    LET shiftBy == s.nodes[node].ops[2]
    IN  ContainShiftSource(
            IF /\ IsContainableImmed(s, node, shiftBy)
               /\ s.nodes[shiftBy].ival <= 255 /\ s.nodes[shiftBy].ival >= 0
            THEN MakeSrcContained(s, node, shiftBy) ELSE s,
            node)

\* an immediate value is contained, except a zero stored at int size or more
ContainCheckStoreLoc(s, storeLoc) ==
    LET op1 == s.nodes[storeLoc].ops[1]
    IN  IF s.nodes[storeLoc].typ = "simd" THEN s
        ELSE IF /\ IsContainableImmed(s, storeLoc, op1)
                /\ (~IsIntegralConst(s, op1, 0) \/ varTypeIsSmall(s.nodes[storeLoc].typ))
             THEN MakeSrcContained(s, storeLoc, op1)
        ELSE s

\* the target of a call that is a load is contained
ContainCheckCallOperands(s, call) ==
    IF s.nodes[call].ops # <<>> /\ s.nodes[s.nodes[call].ops[1]].oper = "IND"
    THEN MakeSrcContained(s, call, s.nodes[call].ops[1]) ELSE s

-----------------------------------------------------------------------------
(* Scalar bit-manipulation peepholes: ANDN, BLSR, BLSI, BLSMSK             *)

\* the operand of node that is an oper node, the first operand being looked
\* at first, or 0
OperandOfKind(s, node, oper) ==
    IF s.nodes[s.nodes[node].ops[1]].oper = oper THEN s.nodes[node].ops[1]
    ELSE IF s.nodes[s.nodes[node].ops[2]].oper = oper THEN s.nodes[node].ops[2]
    ELSE 0

\* the operand of node that is not n
OperandBeside(s, node, n) ==
    IF s.nodes[node].ops[1] = n THEN s.nodes[node].ops[2] ELSE s.nodes[node].ops[1]

\* GTF_SET_FLAGS is set on one of the nodes
AnySetsFlags(s, ns) == \E n \in ns : s.nodes[n].setFlags

IsAddressExposed(s, lcl) == s.nodes[lcl].ival = s.cfg.exposed

\* the intrinsic of the given name, its 64-bit form for a long, or "Illegal"
\* when the instruction set is not there
ScalarIntrinsicId(s, name, isLong) ==
    IF ~s.cfg.avx2 THEN "Illegal" ELSE IF isLong THEN "X64_" \o name ELSE name

RemoveNodes(s, removed) == [s EXCEPT !.range = SelectSeq(s.range, LAMBDA x : x \notin removed)]

\* a new intrinsic of the type of node is put before node and takes its
\* place in the user; node and the other nodes of the pattern are unlinked
\* and the operands of the intrinsic are checked for containment
ReplaceWithScalarIntrinsic(s, node, hw, ops, removed) ==
    WithNextOf(
        ContainCheckHWIntrinsic(
            RemoveNodes(
                ReplaceWith(
                    InsertBefore(NewNode(s, Node("HWINTRINSIC", hw, ops, 0, s.nodes[node].typ)),
                                 node, NewId(s)),
                    TryGetUse(s, node), node, NewId(s)),
                removed),
            NewId(s)),
        NewId(s))

\* AND(X, NOT(Y)), not the value of a read-modify-write store, no flags
\* wanted of the AND and the NOT, the value used
CanLowerAndOpToAndNot(s, andNode) ==
    LET notNode == OperandOfKind(s, andNode, "NOT")
    IN  /\ notNode # 0
        /\ ~IsBinOpInRMWStoreInd(s, andNode)
        /\ ~AnySetsFlags(s, {andNode, notNode})
        /\ ScalarIntrinsicId(s, "AndNot", s.nodes[andNode].typ = "long") # "Illegal"
        /\ TryGetUse(s, andNode) # 0

\* AndNot(Y, X): the operands are those of andn, ~y first
LowerAndOpToAndNot(s, andNode) ==
    LET notNode == OperandOfKind(s, andNode, "NOT")
    IN  ReplaceWithScalarIntrinsic(s, andNode,
            ScalarIntrinsicId(s, "AndNot", s.nodes[andNode].typ = "long"),
            <<s.nodes[notNode].ops[1], OperandBeside(s, andNode, notNode)>>,
            {andNode, notNode})

\* node is oper(X, ADD(X, -1)), X a local whose address is not exposed
IsOpWithDecrement(s, node) ==
    LET op1 == s.nodes[node].ops[1]
        op2 == s.nodes[node].ops[2]
    IN  /\ s.nodes[op1].oper = "LCL_VAR" /\ ~IsAddressExposed(s, op1)
        /\ s.nodes[op2].oper = "ADD"
        /\ IsIntegralConst(s, s.nodes[op2].ops[2], -1)
        /\ s.nodes[s.nodes[op2].ops[1]].oper = "LCL_VAR"
        /\ s.nodes[s.nodes[op2].ops[1]].ival = s.nodes[op1].ival

\* AND(X, ADD(X, -1)) or XOR(X, ADD(X, -1)), no flags wanted of the constant,
\* the ADD and the node, the value used
CanLowerOpWithDecrement(s, node, name) ==
    /\ IsOpWithDecrement(s, node)
    /\ ~AnySetsFlags(s, {s.nodes[s.nodes[node].ops[2]].ops[2], s.nodes[node].ops[2], node})
    /\ ScalarIntrinsicId(s, name, s.nodes[s.nodes[node].ops[1]].typ = "long") # "Illegal"
    /\ TryGetUse(s, node) # 0

\* the intrinsic reads X; only the node is unlinked
LowerOpWithDecrementKeepingAdd(s, node, name) ==
    ReplaceWithScalarIntrinsic(s, node,
        ScalarIntrinsicId(s, name, s.nodes[s.nodes[node].ops[1]].typ = "long"),
        <<s.nodes[node].ops[1]>>, {node})

\* the intrinsic reads X; the node, the ADD and its operands are unlinked
LowerOpWithDecrement(s, node, name) ==
    LET op2 == s.nodes[node].ops[2]
    IN  ReplaceWithScalarIntrinsic(s, node,
            ScalarIntrinsicId(s, name, s.nodes[s.nodes[node].ops[1]].typ = "long"),
            <<s.nodes[node].ops[1]>>,
            {node, op2, s.nodes[op2].ops[1], s.nodes[op2].ops[2]})

CanLowerAndOpToResetLowestSetBit(s, andNode) ==
    CanLowerOpWithDecrement(s, andNode, "ResetLowestSetBit")

LowerAndOpToResetLowestSetBit(s, andNode) == LowerOpWithDecrement(s, andNode, "ResetLowestSetBit")

\* AND(X, NEG(X)) or AND(NEG(X), X), X a local, no flags wanted of X and of
\* the NEG, the value used
CanLowerAndOpToExtractLowestSetBit(s, andNode) ==
    LET negNode == OperandOfKind(s, andNode, "NEG")
        opNode == OperandBeside(s, andNode, negNode)
    IN  /\ negNode # 0
        /\ s.nodes[s.nodes[negNode].ops[1]].oper = "LCL_VAR"
        /\ s.nodes[opNode].oper = "LCL_VAR"
        /\ s.nodes[s.nodes[negNode].ops[1]].ival = s.nodes[opNode].ival
        /\ ~AnySetsFlags(s, {opNode, negNode})
        /\ ScalarIntrinsicId(s, "ExtractLowestSetBit", s.nodes[andNode].typ = "long") # "Illegal"
        /\ TryGetUse(s, andNode) # 0

\* the intrinsic reads X; the AND, the NEG and its operand are unlinked
LowerAndOpToExtractLowestSetBit(s, andNode) ==
    LET negNode == OperandOfKind(s, andNode, "NEG")
    IN  ReplaceWithScalarIntrinsic(s, andNode,
            ScalarIntrinsicId(s, "ExtractLowestSetBit", s.nodes[andNode].typ = "long"),
            <<OperandBeside(s, andNode, negNode)>>,
            {andNode, negNode, s.nodes[negNode].ops[1]})

CanLowerXorOpToGetMaskUpToLowestSetBit(s, xorNode) ==
    CanLowerOpWithDecrement(s, xorNode, "GetMaskUpToLowestSetBit")

LowerXorOpToGetMaskUpToLowestSetBit(s, xorNode) ==
    LowerOpWithDecrement(s, xorNode, "GetMaskUpToLowestSetBit")

\* an AND that has a NOT operand asks whether it is the value of a
\* read-modify-write store, which caches the status of the store
AndNotConsidered(s, binOp) ==
    IF OperandOfKind(s, binOp, "NOT") # 0 THEN CacheRMWStatus(s, binOp) ELSE s

\* the peepholes of an integer AND, tried in this order
LowerAndOpPeepholes(s, binOp) ==
    IF CanLowerAndOpToAndNot(s, binOp) THEN LowerAndOpToAndNot(s, binOp)
    ELSE IF CanLowerAndOpToResetLowestSetBit(s, binOp) THEN LowerAndOpToResetLowestSetBit(s, binOp)
    ELSE IF CanLowerAndOpToExtractLowestSetBit(s, binOp)
         THEN LowerAndOpToExtractLowestSetBit(s, binOp)
    ELSE [s |-> ContainCheckBinary(s, binOp), next |-> gtNext(s, binOp)]

-----------------------------------------------------------------------------
(* Scalar handlers                                                         *)

\* the unroll threshold of a block initialisation, with SIMD stores and
\* with stores of general registers only
getUnrollThreshold(s, canUseSimd) == IF canUseSimd THEN s.cfg.unroll ELSE s.cfg.unrollGpr

\* the block is on the heap, holds references and is zeroed
IsZeroingGcPointersOnHeap(s, blkNode) ==
    IsIntegralConst(s, s.nodes[blkNode].ops[2], 0) /\ s.nodes[blkNode].gcHeap

\* a faulty fill: the byte is replicated in 32 bits whatever the size
BlockFillOfInt(s, src, size, canUseSimd) ==
    LET fill == s.nodes[src].ival % 256
    IN  IF canUseSimd /\ size >= 16
        THEN [s EXCEPT !.nodes[src].contained = TRUE, !.nodes[src].ival = fill, !.nodes[src].ivalHi = 0]
        ELSE [s EXCEPT !.nodes[src].ival = fill * 16843009, !.nodes[src].ivalHi = 0]

\* the constant of an unrolled initialisation: its low byte, kept as it is
\* for SIMD stores (16 bytes, an XMM register, or more) and for zero, and
\* else multiplied by 0x0101010101010101 on the 64-bit target when the size
\* is that of a register or more, by 0x01010101 otherwise.  ival holds the
\* low 32 bits of the constant and ivalHi the high ones
BlockFill(s, src, size, canUseSimd) ==
    LET fill == s.nodes[src].ival % 256
    IN  IF canUseSimd /\ size >= 16
        THEN [s EXCEPT !.nodes[src].contained = TRUE, !.nodes[src].ival = fill, !.nodes[src].ivalHi = 0]
        ELSE IF fill = 0
             THEN [s EXCEPT !.nodes[src].ival = fill, !.nodes[src].ivalHi = 0]
        ELSE IF ~s.cfg.x86 /\ size >= 8
             THEN [s EXCEPT !.nodes[src].ival = fill * 16843009, !.nodes[src].ivalHi = fill * 16843009,
                            !.nodes[src].typ = "long"]
        ELSE [s EXCEPT !.nodes[src].ival = fill * 16843009, !.nodes[src].ivalHi = 0]

\* a block that is not unrolled: a loop, a helper call on the 64-bit target
\* (the call that replaces the store is not built here), or a rep stos
BlockTooBigToUnroll(s, blkNode) ==
    [s EXCEPT !.nodes[blkNode].blkOp =
        IF IsZeroingGcPointersOnHeap(s, blkNode) THEN "Loop"
        ELSE IF ~s.cfg.x86 THEN "Helper" ELSE "RepInstr"]

\* the initialisation of a block (the copy of a block is not modelled)
LowerBlockStore(s, blkNode) ==
    LET data == s.nodes[blkNode].ops[2]
        isInitVal == s.nodes[data].oper = "INIT_VAL"
        src == IF isInitVal THEN s.nodes[data].ops[1] ELSE data
        s1 == IF isInitVal THEN [s EXCEPT !.nodes[data].contained = TRUE] ELSE s
        size == s.nodes[blkNode].size
        canUseSimd == ~s.nodes[blkNode].gcHeap
    IN  [s |-> IF size <= getUnrollThreshold(s1, TRUE)
               THEN IF s1.nodes[src].oper # "CNS_INT"
                    THEN [s1 EXCEPT !.nodes[blkNode].blkOp = "RepInstr"]
                    ELSE IF size > getUnrollThreshold(s1, canUseSimd)
                         THEN BlockTooBigToUnroll(s1, blkNode)
                    ELSE [BlockFill(s1, src, size, canUseSimd) EXCEPT !.nodes[blkNode].blkOp = "Unroll"]
               ELSE BlockTooBigToUnroll(s1, blkNode),
         next |-> gtNext(s, blkNode)]

\* a 2-byte store of a constant to a local is widened
LowerStoreLoc(s, storeLoc) ==
    [s |-> ContainCheckStoreLoc(
               IF /\ genTypeSize(s.nodes[storeLoc].typ) = 2
                  /\ IsCnsIntOrI(s, s.nodes[storeLoc].ops[1])
               THEN [s EXCEPT !.nodes[storeLoc].typ = "int"] ELSE s,
               storeLoc),
     next |-> gtNext(s, storeLoc)]

LowerBinaryArithmetic(s, binOp) ==
    IF s.cfg.opts /\ varTypeIsIntegral(s.nodes[binOp].typ) /\ s.nodes[binOp].oper = "AND"
    THEN LowerAndOpPeepholes(AndNotConsidered(s, binOp), binOp)
    ELSE IF /\ s.cfg.opts /\ varTypeIsIntegral(s.nodes[binOp].typ) /\ s.nodes[binOp].oper = "XOR"
            /\ CanLowerXorOpToGetMaskUpToLowestSetBit(s, binOp)
         THEN LowerXorOpToGetMaskUpToLowestSetBit(s, binOp)
    ELSE [s |-> ContainCheckBinary(s, binOp), next |-> gtNext(s, binOp)]

LowerShift(s, shift) == [s |-> ContainCheckShiftRotate(s, shift), next |-> gtNext(s, shift)]

LowerIndir(s, ind) == [s |-> ContainCheckIndir(s, ind), next |-> gtNext(s, ind)]

LowerCall(s, call) == [s |-> ContainCheckCallOperands(s, call), next |-> gtNext(s, call)]

-----------------------------------------------------------------------------
(* Integer multiply                                                        *)

isPow2(v) == v \in {1, 2, 4, 8, 16, 32, 64}

genLog2(v) == CHOOSE k \in 0..6 : 2 ^ k = v

\* the operand that is an immediate (the second is looked at first), or 0
MulImmediate(s, node) ==
    IF IsContainableImmed(s, node, s.nodes[node].ops[2]) THEN s.nodes[node].ops[2]
    ELSE IF IsContainableImmed(s, node, s.nodes[node].ops[1]) THEN s.nodes[node].ops[1]
    ELSE 0

\* the load that the multiply can take from memory, or 0: beside an
\* immediate only the other operand, else the second operand, else the first
MulMemOp(s, node, imm) ==
    LET op1 == s.nodes[node].ops[1]
        op2 == s.nodes[node].ops[2]
    IN  IF imm # 0
        THEN IF IsContainableLoad(s, node, IF imm = op2 THEN op1 ELSE op2)
             THEN (IF imm = op2 THEN op1 ELSE op2) ELSE 0
        ELSE IF IsContainableLoad(s, node, op2) THEN op2
        ELSE IF IsContainableLoad(s, node, op1) THEN op1
        ELSE 0

\* whether operand k may be marked reg-optional
MulSafeToMark(s, node, imm, k) ==
    LET op == s.nodes[node].ops[k]
    IN  /\ imm # op
        /\ imm = 0 => ~(IsContainableMemoryOpSize(s, node, op) /\ IsContainableMemoryOp(s, op))
        /\ IsSafeToMarkRegOptional(s, node, op)

\* the multiply with its immediate (if any) already contained; a multiply
\* by 3, 5 or 9 becomes an LEA and keeps its other operand in a register
ContainMulOperands(s, node, imm) ==
    IF imm # 0 /\ ~s.nodes[node].ovf /\ s.nodes[imm].ival \in {3, 5, 9} THEN s
    ELSE IF MulMemOp(s, node, imm) # 0 THEN MakeSrcContained(s, node, MulMemOp(s, node, imm))
    ELSE SetRegOptionalForBinOp(s, node, MulSafeToMark(s, node, imm, 1),
                                MulSafeToMark(s, node, imm, 2))

ContainCheckMul(s, node) ==
    IF varTypeIsFloating(s.nodes[node].typ) THEN ContainCheckFloatBinary(s, node)
    ELSE ContainMulOperands(
             IF MulImmediate(s, node) # 0 THEN MakeSrcContained(s, node, MulImmediate(s, node)) ELSE s,
             node, MulImmediate(s, node))

\* the operand def of user is spilled to a new local unless it is a local
\* already: a store after def, a load after the store, and the load in
\* place of def in user; the store is lowered at once
ReplaceWithLclVar(s, user, def) ==
    IF s.nodes[def].oper = "LCL_VAR" THEN s
    ELSE ContainCheckStoreLoc(
             ReplaceWith(
                 InsertAfter(
                     InsertAfter(
                         NewNode(NewNode(s, Node("STORE_LCL_VAR", "", <<def>>, 10 + NewId(s),
                                                 s.nodes[def].typ)),
                                 Node("LCL_VAR", "", <<>>, 10 + NewId(s), s.nodes[def].typ)),
                         def, NewId(s)),
                     NewId(s), NewId(s) + 1),
                 user, def, NewId(s) + 1),
             NewId(s))

\* a faulty rewrite: the new nodes are linked in after the multiply
MulToShiftAfterNode(s, node, oper, shiftAmount) ==
    LET op1 == s.nodes[node].ops[1]
        cns == s.nodes[node].ops[2]
        t == [NewNode(NewNode(s, Node("LSH", "", <<op1, cns>>, 0, s.nodes[node].typ)),
                      Node("LCL_VAR", "", <<>>, s.nodes[op1].ival, s.nodes[op1].typ))
                 EXCEPT !.nodes[node].oper = oper,
                        !.nodes[node].ops = <<NewId(s), NewId(s) + 1>>,
                        !.nodes[cns].ival = shiftAmount]
    IN  InsertAfter(InsertAfter(t, node, NewId(s) + 1), node, NewId(s))

\* MUL(op1, cns) becomes oper(LSH(op1, cns), clone of op1), the shift count
\* in cns, the nodes linked in before node in the order clone, cns, op1, LSH
MulToShiftAndAddSub(s, node, oper, shiftAmount) ==
    LET op1 == s.nodes[node].ops[1]
        cns == s.nodes[node].ops[2]
        t == [NewNode(NewNode(s, Node("LSH", "", <<op1, cns>>, 0, s.nodes[node].typ)),
                      Node("LCL_VAR", "", <<>>, s.nodes[op1].ival, s.nodes[op1].typ))
                 EXCEPT !.nodes[node].oper = oper,
                        !.nodes[node].ops = <<NewId(s), NewId(s) + 1>>,
                        !.nodes[cns].ival = shiftAmount]
    IN  InsertBefore(
            InsertBefore(
                InsertBefore(
                    InsertBefore(Remove(Remove(t, op1), cns), node, NewId(s) + 1),
                    node, cns),
                node, op1),
            node, NewId(s))

\* a faulty choice: a multiply by 3, 5 or 9 is rewritten like the others
MulRewriteKindWithoutLea(s, node) ==
    LET op1 == s.nodes[node].ops[1]
        op2 == s.nodes[node].ops[2]
        cnsVal == s.nodes[op2].ival
    IN  IF \/ ~s.cfg.opts
           \/ ~varTypeIsIntegral(s.nodes[node].typ)
           \/ s.nodes[node].ovf
           \/ s.nodes[op1].contained \/ s.nodes[op2].contained
           \/ ~IsCnsIntOrI(s, op2)
        THEN "none"
        ELSE IF isPow2(cnsVal) THEN "LSH"
        ELSE IF s.cfg.x86 THEN "none"
        ELSE IF isPow2(cnsVal + 1) THEN "SUB"
        ELSE IF isPow2(cnsVal - 1) THEN "ADD"
        ELSE "none"

\* the rewrite of a multiply by a constant: "LSH", "SUB", "ADD" or "none"
MulRewriteKind(s, node) ==
    LET op1 == s.nodes[node].ops[1]
        op2 == s.nodes[node].ops[2]
        cnsVal == s.nodes[op2].ival
    IN  IF \/ ~s.cfg.opts
           \/ ~varTypeIsIntegral(s.nodes[node].typ)
           \/ s.nodes[node].ovf
           \/ s.nodes[op1].contained \/ s.nodes[op2].contained
           \/ ~IsCnsIntOrI(s, op2)
           \/ cnsVal \in {3, 5, 9}
        THEN "none"
        ELSE IF isPow2(cnsVal) THEN "LSH"
        ELSE IF s.cfg.x86 THEN "none"
        ELSE IF isPow2(cnsVal + 1) THEN "SUB"
        ELSE IF isPow2(cnsVal - 1) THEN "ADD"
        ELSE "none"

\* the shift and the add or subtract, linked in, get their containment
ContainCheckShiftAndAddSub(s, node) ==
    ContainCheckShiftRotate(ContainCheckBinary(s, node), s.nodes[node].ops[1])

\* the rewrite of a multiply whose MulRewriteKind is kind (not "none")
TryLowerMulWithConstant(s, node, kind) ==
    LET cns == s.nodes[node].ops[2]
        cnsVal == s.nodes[cns].ival
    IN  IF kind = "LSH"
        THEN ContainCheckShiftRotate([s EXCEPT !.nodes[cns].ival = genLog2(cnsVal),
                                               !.nodes[node].oper = "LSH"], node)
        ELSE ContainCheckShiftAndAddSub(
                 MulToShiftAndAddSub(ReplaceWithLclVar(s, node, s.nodes[node].ops[1]), node, kind,
                                     genLog2(IF kind = "SUB" THEN cnsVal + 1 ELSE cnsVal - 1)),
                 node)

LowerMul(s, mul) ==
    [s |-> IF MulRewriteKind(s, mul) # "none"
           THEN TryLowerMulWithConstant(s, mul, MulRewriteKind(s, mul))
           ELSE ContainCheckMul(s, mul),
     next |-> gtNext(s, mul)]

-----------------------------------------------------------------------------
(* LowerHWIntrinsicCndSel                                                  *)

\* a new vector intrinsic of the size and base type of node
VecLike(s, node, hw, ops) ==
    [Node("HWINTRINSIC", hw, ops, 0, "simd") EXCEPT
        !.size = s.nodes[node].size, !.base = s.nodes[node].base]

\* gtClone of a leaf: a fresh node that reads the same local or constant
gtClone(s, n) ==
    [Node(s.nodes[n].oper, "", <<>>, s.nodes[n].ival, s.nodes[n].typ) EXCEPT
        !.size = s.nodes[n].size, !.base = s.nodes[n].base]

\* gtNewSimdBinOpNode: a new bitwise intrinsic of the size and base type of
\* node.  GT_AND_NOT(op1, op2) stands for op1 & ~op2 and the instruction
\* computes ~op1 & op2, so that its node takes the operands in reverse
gtNewSimdBinOpNode(s, node, oper, op1, op2) ==
    VecLike(s, node, oper, IF oper = "AND_NOT" THEN <<op2, op1>> ELSE <<op1, op2>>)

OperIsConvertMaskToVector(s, n) == OperIsHWIntrinsic(s, n) /\ s.nodes[n].hw = "ConvertMaskToVector"

\* the value has all bits of each element equal: the result of a vector
\* comparison, a mask converted to a vector, or such a constant
IsVectorPerElementMask(s, n) ==
    \/ OperIsHWIntrinsic(s, n) /\ CompareMaskId(s.nodes[n].hw) # "Illegal"
    \/ OperIsConvertMaskToVector(s, n)
    \/ IsVectorAllBitsSet(s, n)
    \/ IsVectorZero(s, n)

\* BlendVariableMask(op3, op2, mask): the mask is the operand of the
\* conversion op1, which goes away, or a new conversion of op1 to a mask
CndSelToBlendVariableMask(s, node, op) ==
    IF OperIsConvertMaskToVector(s, op[1])
    THEN ResetHWIntrinsicId([Remove(s, op[1]) EXCEPT !.nodes[node].base = s.nodes[op[1]].base],
                            node, "BlendVariableMask", <<op[3], op[2], s.nodes[op[1]].ops[1]>>)
    ELSE ResetHWIntrinsicId(
             InsertBefore(NewNode(s, [VecLike(s, node, "ConvertVectorToMask", <<op[1]>>)
                                          EXCEPT !.typ = "mask"]),
                          node, NewId(s)),
             node, "BlendVariableMask", <<op[3], op[2], NewId(s)>>)

\* a faulty rewrite: the node is an AND of the condition and op2 whichever
\* of the values is zero
CndSelToBinOpAlwaysAnd(s, node, op) ==
    Remove(
        ReplaceUseOrMarkUnused(
            InsertAfter(
                NewNode(Remove(s, IF IsVectorZero(s, op[3]) THEN op[3] ELSE op[2]),
                        VecLike(s, node, "AND", <<op[1], IF IsVectorZero(s, op[3]) THEN op[2] ELSE op[3]>>)),
                node, NewId(s)),
            node, NewId(s)),
        node)

\* a faulty rewrite: the node of AND_NOT takes op3 and op1 as they come
CndSelToBinOpAsGiven(s, node, op) ==
    Remove(
        ReplaceUseOrMarkUnused(
            InsertAfter(
                NewNode(Remove(s, IF IsVectorZero(s, op[3]) THEN op[3] ELSE op[2]),
                        IF IsVectorZero(s, op[3])
                        THEN VecLike(s, node, "AND", <<op[1], op[2]>>)
                        ELSE VecLike(s, node, "AND_NOT", <<op[3], op[1]>>)),
                node, NewId(s)),
            node, NewId(s)),
        node)

\* a select between a value and zero is AND(op1, op2) or AND_NOT(op3, op1),
\* placed after the node, which it then replaces
CndSelToBinOp(s, node, op) ==
    Remove(
        ReplaceUseOrMarkUnused(
            InsertAfter(
                NewNode(Remove(s, IF IsVectorZero(s, op[3]) THEN op[3] ELSE op[2]),
                        IF IsVectorZero(s, op[3])
                        THEN gtNewSimdBinOpNode(s, node, "AND", op[1], op[2])
                        ELSE gtNewSimdBinOpNode(s, node, "AND_NOT", op[3], op[1])),
                node, NewId(s)),
            node, NewId(s)),
        node)

\* the BlendVariable intrinsic of the vector size, or "Illegal"
BlendVariableId(s, node) ==
    IF s.nodes[node].size = 32
    THEN IF varTypeIsFloating(s.nodes[node].base) THEN "AVX_BlendVariable"
         ELSE IF s.cfg.avx2 THEN "AVX2_BlendVariable"
         ELSE "Illegal"
    ELSE IF s.cfg.sse42 THEN "SSE42_BlendVariable"
    ELSE "Illegal"

\* the temporaries of the unoptimized form, op1 being a local: tmp1 (a clone
\* of op1), tmp2 = op1 & op2, tmp3 = op3 & ~tmp1 and tmp4 = tmp2 | tmp3 get
\* the ids NewId(s), ..., NewId(s) + 3
CndSelTemporaries(s, node, op) ==
    NewNode(NewNode(NewNode(NewNode(s, gtClone(s, op[1])),
                            gtNewSimdBinOpNode(s, node, "AND", op[1], op[2])),
                    gtNewSimdBinOpNode(s, node, "AND_NOT", op[3], NewId(s))),
            gtNewSimdBinOpNode(s, node, "OR", NewId(s) + 1, NewId(s) + 2))

\* the temporaries, of which t is the first, are linked in: tmp1 after op1,
\* tmp2 after op2, tmp3 after op3, tmp4 before the node, which tmp4 replaces;
\* tmp2, tmp3 and tmp4 are lowered as they are placed
CndSelPlaceTemporaries(s, node, op, t) ==
    LowerNode(
        Remove(
            ReplaceUseOrMarkUnused(
                InsertBefore(
                    LowerNode(
                        InsertAfter(
                            LowerNode(InsertAfter(InsertAfter(s, op[1], t), op[2], t + 1), t + 1).s,
                            op[3], t + 2),
                        t + 2).s,
                    node, t + 3),
                node, t + 3),
            node),
        t + 3)

CndSelWithLocalCondition(s, node) ==
    CndSelPlaceTemporaries(CndSelTemporaries(s, node, s.nodes[node].ops), node, s.nodes[node].ops, NewId(s))

\* op1 is spilled to a local and the select is computed by AND, AND_NOT, OR
CndSelUnoptimized(s, node) ==
    CndSelWithLocalCondition(ReplaceWithLclVar(s, node, s.nodes[node].ops[1]), node)

\* a faulty control byte: (B & C) | (A & ~C), the select by the third operand
CndSelToTernaryLogicByThird(s, node) ==
    MakeTernaryLogic(s, node, s.nodes[node].ops, ByteOr(ByteAnd(B, C), ByteAnd(A, ByteNot(C))))

\* TernaryLogic(op1, op2, op3, 0xCA): (B & A) | (C & ~A)
CndSelToTernaryLogic(s, node) ==
    MakeTernaryLogic(s, node, s.nodes[node].ops, ByteOr(ByteAnd(B, A), ByteAnd(C, ByteNot(A))))

LowerHWIntrinsicCndSel(s, node) ==
    LET op == s.nodes[node].ops
        isMask == IsVectorPerElementMask(s, op[1])
    IN  IF isMask /\ (s.nodes[node].size = 64 \/ OperIsConvertMaskToVector(s, op[1]))
        THEN LowerNode(CndSelToBlendVariableMask(s, node, op), node)
        ELSE IF isMask /\ (IsVectorZero(s, op[2]) \/ IsVectorZero(s, op[3]))
             THEN LowerNode(CndSelToBinOp(s, node, op), NewId(s))
        ELSE IF isMask /\ BlendVariableId(s, node) # "Illegal"
             THEN LowerNode(ResetHWIntrinsicId(s, node, BlendVariableId(s, node),
                                               <<op[3], op[2], op[1]>>), node)
        ELSE IF s.cfg.avx512 THEN LowerNode(CndSelToTernaryLogic(s, node), node)
        ELSE CndSelUnoptimized(s, node)

-----------------------------------------------------------------------------
(* LowerCast: saturating conversion of a floating value to an integer      *)

CastVec(hw, ops, base) ==
    [Node("HWINTRINSIC", hw, ops, 0, "simd") EXCEPT !.size = 16, !.base = base]

CastScalar(hw, ops, typ, base) ==
    [Node("HWINTRINSIC", hw, ops, 0, typ) EXCEPT !.size = 16, !.base = base]

\* the store and the load that LIR::Use::ReplaceWithLclVar puts after the
\* definition def; the store has the id st
SpillToLclVar(def, st, typ) ==
    <<Node("STORE_LCL_VAR", "", <<def>>, 10 + st, typ), Node("LCL_VAR", "", <<>>, 10 + st, typ)>>

LclVarOf(st, typ) == Node("LCL_VAR", "", <<>>, 10 + st, typ)

\* the largest value of the integer type, as the constant's tag
MaxIntegralValue(dstType) == Node("CNS_INT", "", <<>>, 127, IF genTypeSize(dstType) = 8 THEN "long" ELSE "int")

\* the first power of two that the integer type cannot hold
MaxFloatingValue == [Node("CNS_VEC", "", <<>>, 128, "simd") EXCEPT !.size = 16]

genActualType(t) == IF genTypeSize(t) = 8 THEN "long" ELSE "int"

\* isOverflow ? maxIntegralValue : convertResult; the nodes get the ids
\* f, ..., f + 5, and convertResult reads the operands ops
CastSaturation(f, maxFloat, convertResult, srcLcl, src, dstType) ==
    <<maxFloat,
      MaxIntegralValue(dstType),
      convertResult,
      LclVarOf(srcLcl, "simd"),
      CastVec("CompareScalarUnorderedGreaterThanOrEqual", <<f + 3, f>>, src),
      Node("SELECT", "", <<f + 4, f + 1, f + 2>>, 0, genActualType(dstType))>>

\* EVEX unsigned conversions saturate by themselves: only NaN and negative
\* values are fixed up.  The first new node has the id b
CastRangeEvexUnsigned(castOp, b, src) ==
    <<CastVec("CreateScalarUnsafe", <<castOp>>, src),
      [Node("CNS_VEC", "", <<>>, 0, "simd") EXCEPT !.size = 16],
      CastVec("MaxScalar", <<b, b + 1>>, src),
      CastScalar("ToScalar", <<b + 2>>, src, src)>>

\* the spilled source vector: nodes b, b + 1 (store) and b + 2 (load)
CastSource(castOp, b, src) ==
    <<CastVec("CreateScalarUnsafe", <<castOp>>, src)>> \o SpillToLclVar(b, b + 1, "simd")

\* a signed conversion: NaN is masked to zero before the conversion
CastRangeSigned(castOp, b, src, dstType) ==
    CastSource(castOp, b, src)
    \o <<LclVarOf(b + 1, "simd"),
         CastVec("CompareScalarOrdered", <<b + 2, b + 3>>, src),
         LclVarOf(b + 1, "simd"),
         CastVec("AND", <<b + 4, b + 5>>, src)>>
    \o CastSaturation(b + 7, MaxFloatingValue,
                      CastScalar("ConvertToIntegerWithTruncation", <<b + 6>>, dstType, src),
                      b + 1, src, dstType)

\* uint: the conversion to long holds every uint
CastRangeUInt(castOp, b, src, dstType) ==
    CastSource(castOp, b, src)
    \o <<[Node("CNS_VEC", "", <<>>, 0, "simd") EXCEPT !.size = 16],
         CastVec("MaxScalar", <<b + 2, b + 3>>, src)>>
    \o CastSaturation(b + 5, MaxFloatingValue,
                      CastScalar("ConvertToIntegerWithTruncation", <<b + 4>>, "long", src),
                      b + 1, src, dstType)

\* a faulty floor: the rounding instruction rounds to the nearest integer
CastFloorToNearest(r, src, sse42) ==
    IF src # "double" THEN <<>>
    ELSE IF sse42 THEN <<CastVec("RoundToNearestIntegerScalar", <<r>>, src)>>
    ELSE <<Node("CNS_INT", "", <<>>, 21, "int"),
           CastVec("ShiftRightLogical", <<r, r + 1>>, "ulong"),
           Node("CNS_INT", "", <<>>, 21, "int"),
           CastVec("ShiftLeftLogical", <<r + 2, r + 3>>, "ulong")>>

\* the whole part of the source, for a double that becomes a uint: the
\* rounding instruction, or the low 21 bits shifted out.  The nodes follow
\* the read of the source, which has the id r
CastFloor(r, src, sse42) ==
    IF src # "double" THEN <<>>
    ELSE IF sse42 THEN <<CastVec("RoundToZeroScalar", <<r>>, src)>>
    ELSE <<Node("CNS_INT", "", <<>>, 21, "int"),
           CastVec("ShiftRightLogical", <<r, r + 1>>, "ulong"),
           Node("CNS_INT", "", <<>>, 21, "int"),
           CastVec("ShiftLeftLogical", <<r + 2, r + 3>>, "ulong")>>

\* the two conversions, of the fixed-up value fix and of the wrapped value
\* w, and the choice of the second when the first has its sign bit set
CastBlendOfConversions(fix, w, src, sse42) ==
    <<CastVec("ConvertToVector128Int32WithTruncation", <<fix>>, src)>>
    \o SpillToLclVar(w + 1, w + 2, "simd")
    \o <<CastVec("ConvertToVector128Int32WithTruncation", <<w>>, src),
         LclVarOf(w + 2, "simd")>>
    \o (IF sse42
        THEN <<CastVec("SSE42_BlendVariable", <<w + 3, w + 4, w + 5>>, "float")>>
        ELSE <<Node("CNS_INT", "", <<>>, 31, "int"),
               CastVec("ShiftRightArithmetic", <<w + 3, w + 6>>, "int"),
               CastVec("AND", <<w + 7, w + 4>>, "uint"),
               CastVec("OR", <<w + 8, w + 5>>, "uint")>>)

\* uint on the 32-bit target: the signed conversions of the value and of the
\* value wrapped to negative are combined in the vector registers; w is the
\* id of the wrapped value
CastRangeUIntX86(castOp, b, src, dstType, sse42, w) ==
    CastSource(castOp, b, src)
    \o <<[Node("CNS_VEC", "", <<>>, 0, "simd") EXCEPT !.size = 16],
         CastVec("MaxScalar", <<b + 2, b + 3>>, src),
         MaxFloatingValue>>
    \o SpillToLclVar(b + 5, b + 6, "simd")
    \o <<LclVarOf(b + 1, "simd")>>
    \o CastFloor(b + 8, src, sse42)
    \o <<CastVec("SubtractScalar", <<w - 1, b + 7>>, src)>>
    \o CastBlendOfConversions(b + 4, w, src, sse42)
    \o CastSaturation(w + (IF sse42 THEN 7 ELSE 10), LclVarOf(b + 6, "simd"),
                      CastScalar("ToScalar", <<w + (IF sse42 THEN 6 ELSE 9)>>, "int", "uint"),
                      b + 1, src, dstType)

\* ulong: the signed conversion of the value and of the value wrapped to
\* negative are combined in scalar code
CastRangeULong(castOp, b, src, dstType) ==
    CastSource(castOp, b, src)
    \o <<[Node("CNS_VEC", "", <<>>, 0, "simd") EXCEPT !.size = 16],
         CastVec("MaxScalar", <<b + 2, b + 3>>, src),
         MaxFloatingValue>>
    \o SpillToLclVar(b + 5, b + 6, "simd")
    \o <<LclVarOf(b + 1, "simd"),
         CastVec("SubtractScalar", <<b + 8, b + 7>>, src),
         CastScalar("ConvertToIntegerWithTruncation", <<b + 4>>, "long", src)>>
    \o SpillToLclVar(b + 10, b + 11, "long")
    \o <<CastScalar("ConvertToIntegerWithTruncation", <<b + 9>>, "long", src),
         Node("CNS_INT", "", <<>>, 63, "int"),
         Node("RSH", "", <<b + 12, b + 14>>, 0, "long"),
         Node("AND", "", <<b + 15, b + 13>>, 0, "long"),
         LclVarOf(b + 11, "long")>>
    \o CastSaturation(b + 18, LclVarOf(b + 6, "simd"),
                      Node("OR", "", <<b + 16, b + 17>>, 0, "long"),
                      b + 1, src, dstType)

\* LIR::Range::InsertBefore of a range of new nodes
InsertRangeBefore(s, node, recs) ==
    [s EXCEPT !.nodes = @ \o recs,
              !.range = SubSeq(@, 1, Pos(s, node) - 1)
                            \o [i \in 1..Len(recs) |-> Len(s.nodes) + i]
                            \o SubSeq(@, Pos(s, node), Len(@))]

\* the cast reads the last node of the range put before it
CastOfRange(s, tree, recs) ==
    [InsertRangeBefore(s, tree, recs) EXCEPT !.nodes[tree].ops = <<Len(s.nodes) + Len(recs)>>]

RECURSIVE LowerRangeUpTo(_, _)

\* LowerRange: the nodes from r.next up to the node before stop are lowered
LowerRangeUpTo(r, stop) ==
    IF r.next = stop \/ r.next = 0 THEN r.s ELSE LowerRangeUpTo(LowerNode(r.s, r.next), stop)

ContainCheckCast(s, node) ==
    LET castOp == s.nodes[node].ops[1]
        castToType == s.nodes[node].typ
        srcType == s.nodes[castOp].typ
    IN  IF s.nodes[node].ovf THEN s
        ELSE IF varTypeIsFloating(castToType) \/ varTypeIsFloating(srcType)
             THEN IF IsCnsNonZeroFltOrDbl(s, castOp) THEN MakeSrcContained(s, node, castOp)
                  ELSE IF ~varTypeIsSmall(srcType) /\ (srcType # "ulong" \/ s.cfg.avx512)
                       THEN TryMakeSrcContainedOrRegOptional(s, node, castOp)
                  ELSE s
        ELSE IF /\ s.cfg.opts /\ varTypeIsIntegral(srcType) /\ varTypeIsIntegral(castToType)
                /\ ~varTypeIsSmall(srcType)
             THEN TryMakeSrcContainedOrRegOptional(s, node, castOp)
        ELSE s

\* a faulty choice: uint goes through the 64-bit conversion on every target
CastRangeThroughLong(s, tree, castOp, b) ==
    IF varTypeIsUnsigned(s.nodes[tree].typ) /\ s.cfg.avx512
    THEN CastRangeEvexUnsigned(castOp, b, s.nodes[castOp].typ)
    ELSE IF ~varTypeIsUnsigned(s.nodes[tree].typ)
         THEN CastRangeSigned(castOp, b, s.nodes[castOp].typ, s.nodes[tree].typ)
    ELSE IF s.nodes[tree].typ = "uint"
         THEN CastRangeUInt(castOp, b, s.nodes[castOp].typ, s.nodes[tree].typ)
    ELSE CastRangeULong(castOp, b, s.nodes[castOp].typ, s.nodes[tree].typ)

\* the nodes that compute the saturated value of the cast's operand
CastRange(s, tree, castOp, b) ==
    IF varTypeIsUnsigned(s.nodes[tree].typ) /\ s.cfg.avx512
    THEN CastRangeEvexUnsigned(castOp, b, s.nodes[castOp].typ)
    ELSE IF ~varTypeIsUnsigned(s.nodes[tree].typ)
         THEN CastRangeSigned(castOp, b, s.nodes[castOp].typ, s.nodes[tree].typ)
    ELSE IF s.nodes[tree].typ = "uint" /\ ~s.cfg.x86
         THEN CastRangeUInt(castOp, b, s.nodes[castOp].typ, s.nodes[tree].typ)
    ELSE IF s.nodes[tree].typ = "uint"
         THEN CastRangeUIntX86(castOp, b, s.nodes[castOp].typ, s.nodes[tree].typ, s.cfg.sse42,
                               b + 9 + Len(CastFloor(b + 8, s.nodes[castOp].typ, s.cfg.sse42)))
    ELSE CastRangeULong(castOp, b, s.nodes[castOp].typ, s.nodes[tree].typ)

\* the range is put before the cast and then lowered
LowerSaturatingCast(s, tree) ==
    LowerRangeUpTo([s |-> CastOfRange(s, tree, CastRange(s, tree, s.nodes[tree].ops[1], NewId(s))),
                    next |-> NewId(s)],
                   tree)

LowerCast(s, tree) ==
    [s |-> ContainCheckCast(
               IF /\ varTypeIsFloating(s.nodes[s.nodes[tree].ops[1]].typ)
                  /\ varTypeIsIntegral(s.nodes[tree].typ)
                  /\ ~s.cfg.avx10v2
               THEN LowerSaturatingCast(s, tree) ELSE s,
               tree),
     next |-> gtNext(s, tree)]

-----------------------------------------------------------------------------
(* Flag-setting nodes: LowerNodeCC, LowerHWIntrinsicCC, ContainCheckCompare *)

\* LowerNodeCC makes a consumer of the flags: the node after node is a JTRUE
\* that reads node, or node has another user
HasFlagsConsumer(s, node) ==
    /\ gtNext(s, node) # 0
    /\ IF s.nodes[gtNext(s, node)].oper = "JTRUE"
       THEN s.nodes[gtNext(s, node)].ops[1] = node
       ELSE TryGetUse(s, node) # 0

\* LowerNodeCC: a JTRUE that follows node and reads it becomes a JCC on
\* condition; for any other user a SETCC on condition is put after node and
\* takes the place of node in the user
LowerNodeCC(s, node, condition) ==
    IF ~HasFlagsConsumer(s, node) THEN s
    ELSE IF s.nodes[gtNext(s, node)].oper = "JTRUE"
         THEN [s EXCEPT !.nodes[gtNext(s, node)].oper = "JCC",
                        !.nodes[gtNext(s, node)].ops = <<>>,
                        !.nodes[gtNext(s, node)].cc = condition]
    ELSE ReplaceWith(
             InsertAfter(NewNode(s, [Node("SETCC", "", <<>>, 0, "int") EXCEPT !.cc = condition]),
                         node, NewId(s)),
             TryGetUse(s, node), node, NewId(s))

PTestIds == {"SSE42_PTEST", "AVX_PTEST"}

\* the operands of a PTEST are swapped when no carry flag is needed and op1
\* can be contained while op2 cannot; EQ and NE are their own swaps
SwapForContainment(s, node, canSwapOperands) ==
    IF /\ canSwapOperands
       /\ ~IsContainableHWIntrinsicOp(s, node, s.nodes[node].ops[2]).contain
       /\ IsContainableHWIntrinsicOp(s, node, s.nodes[node].ops[1]).contain
    THEN [s EXCEPT !.nodes[node].ops = <<@[2], @[1]>>]
    ELSE s

\* LowerHWIntrinsicCC for PTEST and KORTEST: the node sets the flags, which
\* the consumer made by LowerNodeCC tests for condition
LowerHWIntrinsicCC(s, node, newIntrinsicId, condition) ==
    SwapForContainment(
        [LowerNodeCC(s, node, condition) EXCEPT !.nodes[node].hw = newIntrinsicId,
                                                !.nodes[node].typ = "void",
                                                !.nodes[node].unused = FALSE],
        node,
        newIntrinsicId \in PTestIds /\ (~HasFlagsConsumer(s, node) \/ condition \in {"EQ", "NE"}))

\* integer operands of the same type: a load is contained when that is
\* safe, op2 first; else one of the operands is marked reg-optional
ContainCompareOperands(s, cmp, op1, op2) ==
    IF IsContainableMemoryOp(s, op2) /\ IsSafeToContainMem(s, cmp, op2)
    THEN MakeSrcContained(s, cmp, op2)
    ELSE IF IsContainableMemoryOp(s, op1) /\ IsSafeToContainMem(s, cmp, op1)
         THEN MakeSrcContained(s, cmp, op1)
    ELSE IF IsSafeToMarkRegOptional(s, cmp,
                IF IsCnsIntOrI(s, op1) THEN op2 ELSE PreferredRegOptionalOperand(s, op1, op2))
         THEN MakeSrcRegOptional(s, cmp,
                  IF IsCnsIntOrI(s, op1) THEN op2 ELSE PreferredRegOptionalOperand(s, op1, op2))
    ELSE s

\* ContainCheckCompare of EQ and NE, for which ucomis keeps its operand order
ContainCheckCompare(s, cmp) ==
    LET op1 == s.nodes[cmp].ops[1]
        op2 == s.nodes[cmp].ops[2]
        sameType == s.nodes[op1].typ = s.nodes[op2].typ
    IN  IF varTypeIsFloating(s.nodes[op1].typ)
        THEN IF IsCnsNonZeroFltOrDbl(s, op2) THEN MakeSrcContained(s, cmp, op2)
             ELSE IF IsContainableMemoryOp(s, op2) /\ IsSafeToContainMem(s, cmp, op2)
                  THEN MakeSrcContained(s, cmp, op2)
             ELSE IF IsSafeToMarkRegOptional(s, cmp, op2) THEN MakeSrcRegOptional(s, cmp, op2)
             ELSE s
        ELSE IF IsContainableImmed(s, cmp, op2)
             THEN IF sameType
                  THEN TryMakeSrcContainedOrRegOptional(MakeSrcContained(s, cmp, op2), cmp, op1)
                  ELSE MakeSrcContained(s, cmp, op2)
        ELSE IF sameType THEN ContainCompareOperands(s, cmp, op1, op2)
        ELSE s

LowerCompare(s, cmp) == [s |-> ContainCheckCompare(s, cmp), next |-> gtNext(s, cmp)]

-----------------------------------------------------------------------------
(* LowerHWIntrinsicCmpOp: vector op_Equality and op_Inequality             *)

\* the mask under a mask-to-vector conversion, else the operand itself
MaskOperand(s, op1) == IF OperIsConvertMaskToVector(s, op1) THEN s.nodes[op1].ops[1] ELSE op1

varTypeIsMask(s, n) == s.nodes[n].typ = "mask"

\* the base type of the mask that is tested
MaskBaseType(s, node) ==
    IF OperIsConvertMaskToVector(s, s.nodes[node].ops[1])
    THEN s.nodes[s.nodes[node].ops[1]].base
    ELSE s.nodes[node].base

\* the number of elements, that is, of mask bits
MaskElementCount(s, node) == s.nodes[node].size \div genTypeSize(MaskBaseType(s, node))

\* PTEST is used only when the mask registers of EVEX are not there
CmpOpUsesPTestWithoutEvex(s, node) ==
    /\ ~varTypeIsFloating(s.nodes[node].base)
    /\ s.nodes[node].size # 64
    /\ ~varTypeIsMask(s, MaskOperand(s, s.nodes[node].ops[1]))
    /\ IsVectorZero(s, s.nodes[node].ops[2]) \/ IsVectorAllBitsSet(s, s.nodes[node].ops[2])
    /\ s.cfg.sse42
    /\ ~s.cfg.avx512

\* an integer vector of 16 or 32 bytes compared with Zero or AllBitsSet is
\* tested with PTEST when SSE4.2 is there
CmpOpUsesPTest(s, node) ==
    /\ ~varTypeIsFloating(s.nodes[node].base)
    /\ s.nodes[node].size # 64
    /\ ~varTypeIsMask(s, MaskOperand(s, s.nodes[node].ops[1]))
    /\ IsVectorZero(s, s.nodes[node].ops[2]) \/ IsVectorAllBitsSet(s, s.nodes[node].ops[2])
    /\ s.cfg.sse42

\* op1 == Zero where op1 is AND or AND_NOT of two operands, none of them an
\* embedded broadcast: the bitwise operator, else "NONE"
NestedTestOper(s, node) ==
    LET op1 == s.nodes[node].ops[1]
    IN  IF /\ IsVectorZero(s, s.nodes[node].ops[2])
           /\ OperIsHWIntrinsic(s, op1)
           /\ Len(s.nodes[op1].ops) = 2
           /\ GetOperForHWIntrinsicId(s, op1) \in {"AND", "AND_NOT"}
           /\ ~(s.nodes[s.nodes[op1].ops[2]].contained /\ OperIsHWIntrinsic(s, s.nodes[op1].ops[2]))
        THEN GetOperForHWIntrinsicId(s, op1)
        ELSE "NONE"

\* the node tests the two operands of op1; op1 and the constant go away
TestNestedOperands(s, node) ==
    LET op1 == s.nodes[node].ops[1]
    IN  [Remove(Remove(s, op1), s.nodes[node].ops[2]) EXCEPT !.nodes[node].ops = s.nodes[op1].ops]

\* op2 becomes a clone of op1, a local, placed after op1
TestWithClone(s, node) ==
    LET op1 == s.nodes[node].ops[1]
    IN  [InsertAfter(NewNode(s, gtClone(s, op1)), op1, NewId(s))
            EXCEPT !.nodes[node].ops = <<op1, NewId(s)>>]

\* the default: the constant goes away, op1 is spilled to a local unless it
\* is one, and the node tests op1 against itself
TestOperandWithItself(s, node) ==
    TestWithClone(ReplaceWithLclVar(Remove(s, s.nodes[node].ops[2]), node, s.nodes[node].ops[1]), node)

\* CompareEqualMask(x, Zero) is PTESTNM(x, x), CompareNotEqualMask(x, Zero)
\* is PTESTM(x, x)
TestElementsAgainstZero(s, node) ==
    [TestOperandWithItself(s, node) EXCEPT
        !.nodes[node].hw = IF @ = "CompareEqualMask" THEN "PTESTNM" ELSE "PTESTM"]

\* the operands of the PTEST
PTestOperands(s, node) ==
    IF IsVectorAllBitsSet(s, s.nodes[node].ops[2]) THEN s
    ELSE IF NestedTestOper(s, node) # "NONE" THEN TestNestedOperands(s, node)
    ELSE TestOperandWithItself(s, node)

\* the flag that the PTEST sets when the comparison holds: the carry flag
\* for TestC, the zero flag for TestZ
PTestCondition(s, node, cmpOp) ==
    IF IsVectorAllBitsSet(s, s.nodes[node].ops[2]) \/ NestedTestOper(s, node) = "AND_NOT"
    THEN IF cmpOp = "EQ" THEN "C" ELSE "NC"
    ELSE cmpOp

PTestId(s, node) == IF s.nodes[node].size = 32 THEN "AVX_PTEST" ELSE "SSE42_PTEST"

LowerCmpOpToPTest(s, node, cmpOp) ==
    LowerNode(LowerHWIntrinsicCC(PTestOperands(s, node), node, PTestId(s, node),
                                 PTestCondition(s, node, cmpOp)),
              node)

\* a mask compared with Zero or AllBitsSet is tested as it is
CmpOpTestsMaskOperand(s, node) ==
    /\ varTypeIsMask(s, MaskOperand(s, s.nodes[node].ops[1]))
    /\ IsVectorZero(s, s.nodes[node].ops[2]) \/ IsVectorAllBitsSet(s, s.nodes[node].ops[2])

\* GetHWIntrinsicIdForCmpOp with reverseCond: the mask comparison that holds
\* where the given one does not, or "Illegal"
ReversedCompareMaskId(hw, base) ==
    CASE hw = "CompareEqualMask" -> "CompareNotEqualMask"
      [] hw = "CompareNotEqualMask" -> "CompareEqualMask"
      [] hw = "CompareGreaterThanMask" ->
           IF varTypeIsFloating(base) THEN "CompareNotGreaterThanMask" ELSE "CompareLessThanOrEqualMask"
      [] hw = "CompareLessThanMask" ->
           IF varTypeIsFloating(base) THEN "CompareNotLessThanMask" ELSE "CompareGreaterThanOrEqualMask"
      [] OTHER -> "Illegal"

\* a new mask intrinsic over the elements that node compares
MaskLike(s, node, hw, ops) ==
    [Node("HWINTRINSIC", hw, ops, 0, "mask") EXCEPT
        !.size = s.nodes[node].size, !.base = MaskBaseType(s, node)]

\* NotMask(mask), the constant 8 - count, ShiftLeftMask, the constant again
\* and ShiftRightMask get the ids NewId(s), ..., NewId(s) + 4
InvertedMaskNodes(s, node, mask, count) ==
    NewNode(NewNode(NewNode(NewNode(NewNode(s, MaskLike(s, node, "NotMask", <<mask>>)),
                                    Node("CNS_INT", "", <<>>, 8 - count, "int")),
                            MaskLike(s, node, "ShiftLeftMask", <<NewId(s), NewId(s) + 1>>)),
                    Node("CNS_INT", "", <<>>, 8 - count, "int")),
            MaskLike(s, node, "ShiftRightMask", <<NewId(s) + 2, NewId(s) + 3>>))

\* the nodes, of which t is the first, are linked in before node, one after
\* the other; the two shifts are lowered as they are placed
PlaceInvertedMask(s, node, t) ==
    LowerNode(
        InsertAfter(
            InsertAfter(
                LowerNode(InsertAfter(InsertAfter(InsertBefore(s, node, t), t, t + 1), t + 1, t + 2),
                          t + 2).s,
                t + 2, t + 3),
            t + 3, t + 4),
        t + 4).s

\* newMode: the FloatComparisonMode that holds where mode does not, for the
\* modes UnorderedEqual (8, 24), OrderedFalse (11, 27), OrderedNotEqual
\* (12, 28) and UnorderedTrue (15, 31); any other mode is kept
InverseFloatComparisonMode(mode) ==
    CASE mode \in {8, 24} -> 12
      [] mode \in {11, 27} -> 15
      [] mode \in {12, 28} -> 8
      [] mode \in {15, 31} -> 11
      [] OTHER -> mode

\* a comparison with a constant mode that has an inverse
HasInvertibleCompareMode(s, mask) ==
    /\ s.nodes[mask].hw \in CompareWithModeIntrinsics
    /\ IsCnsIntOrI(s, s.nodes[mask].ops[3])
    /\ InverseFloatComparisonMode(s.nodes[s.nodes[mask].ops[3]].ival) # s.nodes[s.nodes[mask].ops[3]].ival

\* cmpOp3->SetIntegralValue(mode): the value written to the mode constant is
\* the mode that was read from it
StoreCompareMode(s, mask) ==
    LET cmpOp3 == s.nodes[mask].ops[3]
        mode == s.nodes[cmpOp3].ival
    IN  [s EXCEPT !.nodes[cmpOp3].ival = mode]

\* a partial mask (fewer than 8 elements) compared with AllBitsSet: the
\* comparison that made the mask is reversed, or the mask is inverted with
\* its upper bits kept clear; the mask to test then is compared with Zero
InvertPartialMask(s, node, mask, count) ==
    IF /\ OperIsHWIntrinsic(s, mask)
       /\ ReversedCompareMaskId(s.nodes[mask].hw, s.nodes[mask].base) # "Illegal"
    THEN [s |-> LowerNode([s EXCEPT !.nodes[mask].hw =
                                        ReversedCompareMaskId(s.nodes[mask].hw, s.nodes[mask].base)],
                          mask).s,
          mask |-> mask]
    ELSE IF OperIsHWIntrinsic(s, mask) /\ HasInvertibleCompareMode(s, mask)
    THEN [s |-> LowerNode(StoreCompareMode(s, mask), mask).s, mask |-> mask]
    ELSE [s |-> PlaceInvertedMask(InvertedMaskNodes(s, node, mask, count), node, NewId(s)),
          mask |-> NewId(s) + 4]

\* the mask takes the place of the node; the node, the constant and the
\* conversion of the mask to a vector go away
ConsumeMask(s, node, op1, op2, mask) ==
    Remove(
        (IF MaskOperand(s, op1) # op1
         THEN Remove(Remove(ReplaceUseOrMarkUnused(s, node, mask), op2), op1)
         ELSE Remove(ReplaceUseOrMarkUnused(s, node, mask), op2)),
        node)

ConsumedMask(r, node, op1, op2, cnd) ==
    [s |-> ConsumeMask(r.s, node, op1, op2, r.mask), mask |-> r.mask, cnd |-> cnd]

\* mask == Zero holds when KORTEST sets ZF; mask == AllBitsSet holds when it
\* sets CF if the mask is full, and when the inverted mask is zero if not
TestMaskOperand(s, node, cmpOp, count) ==
    LET op1 == s.nodes[node].ops[1]
        op2 == s.nodes[node].ops[2]
    IN  IF IsVectorZero(s, op2)
        THEN ConsumedMask([s |-> s, mask |-> MaskOperand(s, op1)], node, op1, op2, cmpOp)
        ELSE IF count < 8
             THEN ConsumedMask(InvertPartialMask(s, node, MaskOperand(s, op1), count),
                               node, op1, op2, cmpOp)
        ELSE ConsumedMask([s |-> s, mask |-> MaskOperand(s, op1)], node, op1, op2,
                          IF cmpOp = "EQ" THEN "C" ELSE "NC")

\* an integer vector compared with Zero: PTESTM of the operands of op1 when
\* op1 is an AND, else of op1 against itself
PTestMOperands(s, node) ==
    LET op1 == s.nodes[node].ops[1]
    IN  IF OperIsHWIntrinsic(s, op1) /\ GetOperForHWIntrinsicId(s, op1) = "AND"
        THEN [TestNestedOperands(s, node) EXCEPT
                 !.nodes[s.nodes[op1].ops[2]].contained = FALSE,
                 !.nodes[node].base = IF ~varTypeIsSmall(@) THEN @
                                      ELSE IF varTypeIsUnsigned(@) THEN "uint" ELSE "int"]
        ELSE TestOperandWithItself(s, node)

\* the node becomes the mask intrinsic hw and is lowered as such
LowerAsMask(s, node, hw) ==
    LowerNode([s EXCEPT !.nodes[node].typ = "mask", !.nodes[node].hw = hw], node).s

\* the mask of the elements of op1 that are not zero
TestAgainstZero(s, node, cmpOp) ==
    [s |-> LowerAsMask(PTestMOperands(s, node), node, "PTESTM"), mask |-> node, cnd |-> cmpOp]

\* the mask of the equality of the elements, tested for all bits set,
\* whatever the number of elements
CompareToMaskAsIfFull(s, node, cmpOp, count) ==
    IF cmpOp = "EQ"
    THEN [s |-> LowerAsMask(s, node, "CompareEqualMask"), mask |-> node, cnd |-> "C"]
    ELSE [s |-> LowerAsMask(s, node, "CompareNotEqualMask"), mask |-> node, cnd |-> cmpOp]

\* the mask of the comparison of the elements: of their equality, all bits
\* of which are set (CF) when the vectors are equal, if the mask is full;
\* else of their inequality, which is zero (ZF) when the vectors are equal
CompareToMask(s, node, cmpOp, count) ==
    IF count >= 8 /\ cmpOp = "EQ"
    THEN [s |-> LowerAsMask(s, node, "CompareEqualMask"), mask |-> node, cnd |-> "C"]
    ELSE [s |-> LowerAsMask(s, node, "CompareNotEqualMask"), mask |-> node, cnd |-> cmpOp]

\* the mask to test and the condition to test it for
CmpOpMask(s, node, cmpOp, count) ==
    IF CmpOpTestsMaskOperand(s, node) THEN TestMaskOperand(s, node, cmpOp, count)
    ELSE IF ~varTypeIsFloating(s.nodes[node].base) /\ IsVectorZero(s, s.nodes[node].ops[2])
         THEN TestAgainstZero(s, node, cmpOp)
    ELSE CompareToMask(s, node, cmpOp, count)

\* when the mask has a user, a KORTEST of the mask is put before nextNode
\* and takes the place of the mask in the user
KorTestOfMask(r, node, nextNode) ==
    IF TryGetUse(r.s, r.mask) = 0 THEN [s |-> r.s, next |-> nextNode]
    ELSE WithNextOf(
             LowerHWIntrinsicCC(
                 ReplaceWith(
                     InsertBefore(NewNode(r.s, [Node("HWINTRINSIC", "KORTEST", <<r.mask>>, 0, "simd")
                                                   EXCEPT !.size = r.s.nodes[node].size,
                                                          !.base = r.s.nodes[r.mask].base]),
                                  nextNode, NewId(r.s)),
                     TryGetUse(r.s, r.mask), r.mask, NewId(r.s)),
                 NewId(r.s), "KORTEST", r.cnd),
             NewId(r.s))

LowerCmpOpToKorTest(s, node, cmpOp) ==
    KorTestOfMask(CmpOpMask(s, node, cmpOp, MaskElementCount(s, node)), node, gtNext(s, node))

\* the bits that MoveMask gives for a vector of equal elements
MoveMaskConstant(s, node) ==
    IF varTypeIsFloating(s.nodes[node].base)
    THEN IF genTypeSize(s.nodes[node].base) = 4
         THEN (IF s.nodes[node].size = 32 THEN 255 ELSE 15)
         ELSE (IF s.nodes[node].size = 32 THEN 15 ELSE 3)
    ELSE IF s.nodes[node].size = 32 THEN -1 ELSE 65535

\* CompareEqual(op1, op2), MoveMask of it and the constant to compare the
\* bits with get the ids NewId(s), NewId(s) + 1, NewId(s) + 2
MoveMaskNodes(s, node) ==
    NewNode(NewNode(NewNode(s, VecLike(s, node, "CompareEqual", s.nodes[node].ops)),
                    [VecLike(s, node, "MoveMask", <<NewId(s)>>) EXCEPT
                        !.typ = "int",
                        !.base = IF varTypeIsFloating(s.nodes[node].base) THEN @ ELSE "ubyte"]),
            Node("CNS_INT", "", <<>>, MoveMaskConstant(s, node), "int"))

\* the nodes, of which t is the first, are linked in before node, one after
\* the other; the comparison and the MoveMask are lowered as they are placed
PlaceMoveMask(s, node, t) ==
    InsertAfter(
        LowerNode(InsertAfter(LowerNode(InsertBefore(s, node, t), t).s, t, t + 1), t + 1).s,
        t + 1, t + 2)

\* the node becomes the integer comparison of the bits with the constant
CompareMoveMask(s, node, cmpOp, t) ==
    [s EXCEPT !.nodes[node].oper = cmpOp, !.nodes[node].hw = "", !.nodes[node].typ = "int",
              !.nodes[node].ops = <<t + 1, t + 2>>]

\* the comparison sets the flags for its consumer
SetsFlags(s, node) == [s EXCEPT !.nodes[node].typ = "void", !.nodes[node].unused = FALSE]

LowerCmpOpToMoveMask(s, node, cmpOp) ==
    LowerNode(
        SetsFlags(
            LowerNodeCC(
                CompareMoveMask(PlaceMoveMask(MoveMaskNodes(s, node), node, NewId(s)), node, cmpOp,
                                NewId(s)),
                node, cmpOp),
            node),
        node)

LowerHWIntrinsicCmpOp(s, node, cmpOp) ==
    IF CmpOpUsesPTest(s, node) THEN LowerCmpOpToPTest(s, node, cmpOp)
    ELSE IF s.cfg.avx512 THEN LowerCmpOpToKorTest(s, node, cmpOp)
    ELSE LowerCmpOpToMoveMask(s, node, cmpOp)


-----------------------------------------------------------------------------
(* Insert of a float: the immediate and the chains with a zero             *)

\* the immediate of insertps: bits 0-3 are zmask, the elements to zero, bits
\* 4-5 count_d, the element written, bits 6-7 count_s, the element read
InsertZMask(ival) == ival % 16

InsertCountD(ival) == (ival \div 16) % 4

InsertCountS(ival) == (ival \div 64) % 4

\* the immediate of a node with a zero operand: with op1 zero every element
\* but the one written is zeroed, with op2 zero the element written is
InsertImmForZero(s, node, ival) ==
    LET zmask == IF IsVectorZero(s, s.nodes[node].ops[1])
                 THEN BitsOf(InsertZMask(ival)) \cup ((0..3) \ {InsertCountD(ival)})
                 ELSE BitsOf(InsertZMask(ival)) \cup {InsertCountD(ival)}
    IN  IF IsVectorZero(s, s.nodes[node].ops[1]) \/ IsVectorZero(s, s.nodes[node].ops[2])
        THEN InsertCountS(ival) * 64 + InsertCountD(ival) * 16 + FromBits(zmask)
        ELSE ival

\* a faulty merge: the element that the node writes stays zeroed when the
\* inner insert zeroed it
InsertMergedImmKeepingZeroed(ival, op1Ival) == FromBits(BitsOf(ival) \cup BitsOf(InsertZMask(op1Ival)))

\* ival | ((op1Ival & 0x0F) & ~(1 << count_d)): the zmask of the inner
\* insert of a zero is merged, but for the element that the node writes
InsertMergedImm(ival, op1Ival) ==
    FromBits(BitsOf(ival) \cup (BitsOf(InsertZMask(op1Ival)) \ {InsertCountD(ival)}))

\* Insert(zero, zero, idx) is the zero op1
InsertOfZeros(s, node) ==
    [s |-> Remove(Remove(SetUnusedValue(ReplaceUseOrMarkUnused(s, node, s.nodes[node].ops[1]),
                                        s.nodes[node].ops[3]),
                         s.nodes[node].ops[2]),
                  node),
     next |-> gtNext(s, node)]

\* every element is zeroed: a new zero takes the place of a node in use
InsertZeroingAll(s, node, ival) ==
    LET s1 == [s EXCEPT !.nodes[s.nodes[node].ops[3]].ival = ival]
        s2 == IF TryGetUse(s1, node) # 0
              THEN ReplaceWith(NewCnsVecBefore(s1, node, 0), TryGetUse(s1, node), node, NewId(s1))
              ELSE s1
    IN  [s |-> Remove([s2 EXCEPT !.nodes = [n \in DOMAIN @ |->
                                   IF \E k \in 1..3 : s.nodes[node].ops[k] = n
                                   THEN [@[n] EXCEPT !.unused = TRUE] ELSE @[n]]],
                      node),
         next |-> gtNext(s, node)]

\* Insert(Insert(v, zero, i1), x, i2) becomes Insert(v, x, i), and
\* Insert(Insert(v, x, i1), zero, i2) becomes Insert(v, x, i1 | zmask)
InsertChainFolded(s, node, ival) ==
    LET op1 == s.nodes[node].ops[1]
        op2 == s.nodes[node].ops[2]
        op3 == s.nodes[node].ops[3]
        inner == s.nodes[op1].ops
    IN  IF IsVectorZero(s, inner[2])
        THEN Remove(Remove(Remove(
                 [s EXCEPT !.nodes[op3].ival = InsertMergedImm(ival, s.nodes[inner[3]].ival),
                           !.nodes[node].ops[1] = inner[1]],
                 inner[2]), inner[3]), op1)
        ELSE IF IsVectorZero(s, op2)
        THEN Remove(Remove(Remove(
                 [s EXCEPT !.nodes[op3].ival =
                               FromBits(BitsOf(s.nodes[inner[3]].ival) \cup BitsOf(InsertZMask(ival))),
                           !.nodes[node].ops[1] = inner[1],
                           !.nodes[node].ops[2] = inner[2]],
                 op2), inner[3]), op1)
        ELSE s

\* op1 is a float Insert with a constant index that can be moved to node
IsFoldableInsert(s, node) ==
    LET op1 == s.nodes[node].ops[1]
    IN  /\ OperIsHWIntrinsic(s, op1)
        /\ s.nodes[op1].hw = "Insert" /\ s.nodes[op1].base = "float"
        /\ IsCnsIntOrI(s, s.nodes[op1].ops[3])
        /\ IsInvariantInRange(s, op1, node)

LowerHWIntrinsicInsert(s, node) ==
    LET op3 == s.nodes[node].ops[3]
        ival == InsertImmForZero(s, node, s.nodes[op3].ival)
        s1 == [s EXCEPT !.nodes[op3].ival = ival]
    IN  IF s.nodes[node].base # "float" THEN ContainCheckedHWIntrinsic(s, node)
        ELSE IF IsVectorZero(s, s.nodes[node].ops[1]) /\ IsVectorZero(s, s.nodes[node].ops[2])
             THEN InsertOfZeros(s, node)
        ELSE IF ~IsCnsIntOrI(s, op3) THEN ContainCheckedHWIntrinsic(s, node)
        ELSE IF InsertZMask(ival) = 15 THEN InsertZeroingAll(s, node, ival)
        ELSE IF ~IsFoldableInsert(s1, node) THEN ContainCheckedHWIntrinsic(s1, node)
        ELSE ContainCheckedHWIntrinsic(InsertChainFolded(s1, node, ival), node)

-----------------------------------------------------------------------------
(* LowerHWIntrinsic and the dispatch of LowerNode                          *)

LowerHWIntrinsicWithUse(s, node, user) ==
    LET oper == GetOperForHWIntrinsicId(s, node)
        isBitwise == OperIsBitwiseHWIntrinsic(oper) /\ s.nodes[node].typ # "mask"
        isOperNot == oper = "XOR" /\ IsVectorAllBitsSet(s, s.nodes[node].ops[2])
        userOper == IF user = 0 THEN "NONE" ELSE GetOperForHWIntrinsicId(s, user)
        userIsBitwise == OperIsBitwiseHWIntrinsic(userOper)
    IN  IF isBitwise /\ userIsBitwise /\ isOperNot /\ userOper = "AND"
        THEN LowerNotAndToAndNot(s, node, user)
        ELSE IF isBitwise /\ userIsBitwise /\ s.cfg.avx512 THEN FuseTernaryLogic(s, node, user)
        ELSE IF isBitwise /\ isOperNot /\ s.cfg.avx512 THEN LowerNot(s, node)
        ELSE IF s.nodes[node].hw = "TernaryLogic" THEN LowerHWIntrinsicTernaryLogic(s, node)
        ELSE IF s.nodes[node].hw = "ConditionalSelect" THEN LowerHWIntrinsicCndSel(s, node)
        ELSE IF /\ s.nodes[node].hw \in {"CompareEqualMask", "CompareNotEqualMask"}
                /\ ~varTypeIsFloating(s.nodes[node].base)
                /\ IsVectorZero(s, s.nodes[node].ops[2])
             THEN LowerNode(TestElementsAgainstZero(s, node), node)
        ELSE IF s.nodes[node].hw = "Insert" THEN LowerHWIntrinsicInsert(s, node)
        ELSE IF s.nodes[node].hw = "op_Equality" THEN LowerHWIntrinsicCmpOp(s, node, "EQ")
        ELSE IF s.nodes[node].hw = "op_Inequality" THEN LowerHWIntrinsicCmpOp(s, node, "NE")
        ELSE ContainCheckedHWIntrinsic(s, node)

LowerHWIntrinsic(s, node) == LowerHWIntrinsicWithUse(s, node, TryGetUse(s, node))

LowerNode(s, node) ==
    CASE s.nodes[node].oper = "HWINTRINSIC" -> LowerHWIntrinsic(s, node)
      [] s.nodes[node].oper = "STOREIND" -> LowerStoreIndir(s, node)
      [] s.nodes[node].oper = "STORE_LCL_VAR" -> LowerStoreLoc(s, node)
      [] s.nodes[node].oper \in {"ADD", "SUB", "AND", "OR", "XOR"} -> LowerBinaryArithmetic(s, node)
      [] s.nodes[node].oper \in {"LSH", "RSH"} -> LowerShift(s, node)
      [] s.nodes[node].oper = "CAST" -> LowerCast(s, node)
      [] s.nodes[node].oper \in {"EQ", "NE"} -> LowerCompare(s, node)
      [] s.nodes[node].oper = "MUL" -> LowerMul(s, node)
      [] s.nodes[node].oper = "IND" -> LowerIndir(s, node)
      [] s.nodes[node].oper = "CALL" -> LowerCall(s, node)
      [] s.nodes[node].oper = "STORE_BLK" -> LowerBlockStore(s, node)
      [] OTHER -> [s |-> s, next |-> gtNext(s, node)]

-----------------------------------------------------------------------------
(* The value a vector node computes, as a truth table: the locals 1, 2, 3  *)
(* hold the columns A, B, C, so that one byte stands for all 8 valuations  *)

RECURSIVE Eval(_, _)

Eval(s, n) ==
    LET nd == s.nodes[n]
        e(k) == Eval(s, nd.ops[k])
    IN  CASE nd.oper = "LCL_VAR" ->
               (CASE nd.ival = 1 -> A [] nd.ival = 2 -> B [] nd.ival = 3 -> C [] OTHER -> 0)
          [] nd.oper = "CNS_VEC" -> nd.ival
          [] nd.oper = "RETURN" -> e(1)
          [] nd.oper = "HWINTRINSIC" /\ nd.hw \in BitwiseOpers -> GetTernaryControlByte(nd.hw, e(1), e(2))
          [] nd.oper = "HWINTRINSIC" /\ nd.hw = "TernaryLogic" ->
               TernaryLogic(s.nodes[nd.ops[4]].ival, e(1), e(2), e(3))
          [] nd.oper = "HWINTRINSIC" /\ nd.hw = "ConditionalSelect" ->
               ByteOr(ByteAnd(e(1), e(2)), ByteAnd(ByteNot(e(1)), e(3)))
          [] OTHER -> 0

-----------------------------------------------------------------------------
(* Input blocks                                                            *)

Vec(oper, hw, ops, ival) == [Node(oper, hw, ops, ival, "simd") EXCEPT !.size = 16, !.base = "int"]

\* a vector leaf: a local, or a constant
Leaf(kind, lcl) ==
    CASE kind = "v" -> Vec("LCL_VAR", "", <<>>, lcl)
      [] kind = "ones" -> Vec("CNS_VEC", "", <<>>, 255)
      [] OTHER -> Vec("CNS_VEC", "", <<>>, 0)

\* the consumer of the block's value, when it has one
WithUse(ns, use) ==
    IF use
    THEN [nodes |-> Append(ns, Node("RETURN", "", <<Len(ns)>>, 0, "simd")),
          range |-> [i \in 1..(Len(ns) + 1) |-> i]]
    ELSE [nodes |-> [ns EXCEPT ![Len(ns)].unused = TRUE], range |-> [i \in 1..Len(ns) |-> i]]

\* userOper(oper(l1, l2), l3) when side = 1, userOper(l3, oper(l1, l2)) when side = 2
BitwiseBlock(d) ==
    IF d.side = 1
    THEN WithUse(<<Leaf(d.l1, 1), Leaf(d.l2, 2), Vec("HWINTRINSIC", d.oper, <<1, 2>>, 0),
                   Leaf(d.l3, 3), Vec("HWINTRINSIC", d.userOper, <<3, 4>>, 0)>>, d.use)
    ELSE WithUse(<<Leaf(d.l3, 3), Leaf(d.l1, 1), Leaf(d.l2, 2),
                   Vec("HWINTRINSIC", d.oper, <<2, 3>>, 0),
                   Vec("HWINTRINSIC", d.userOper, <<1, 4>>, 0)>>, d.use)

BitwiseInputs ==
    {d \in [kind : {"bitwise"}, oper : BitwiseOpers, userOper : BitwiseOpers, side : {1, 2},
            l1 : {"v"}, l2 : {"v", "ones"}, l3 : {"v", "ones"}, use : BOOLEAN, k : {0}] :
        d.use \/ (d.oper = "XOR" /\ d.userOper = "XOR")}

Scalar(oper, ops, ival, typ) == Node(oper, "", ops, ival, typ)

\* the vector comparisons that have a mask form of their own name
VectorCompares ==
    {"CompareEqual", "CompareGreaterThan", "CompareGreaterThanOrEqual", "CompareLessThan",
     "CompareLessThanOrEqual", "CompareNotEqual", "CompareNotGreaterThan",
     "CompareNotGreaterThanOrEqual", "CompareNotLessThan", "CompareNotLessThanOrEqual",
     "CompareOrdered", "CompareUnordered"}

FloatVec(oper, hw, ops, ival) == [Vec(oper, hw, ops, ival) EXCEPT !.base = "float"]

\* TernaryLogic(l1, l2, l3, control) of three locals, or
\* TernaryLogic(cond(l1, l2), l2, l3, control) of a comparison of floats and
\* two locals, with or without a user
TernaryLogicBlock(d) ==
    IF d.cond = "v"
    THEN WithUse(<<Leaf("v", 1), Leaf("v", 2), Leaf("v", 3), Scalar("CNS_INT", <<>>, d.control, "int"),
                   Vec("HWINTRINSIC", "TernaryLogic", <<1, 2, 3, 4>>, 0)>>, d.use)
    ELSE WithUse(<<FloatVec("LCL_VAR", "", <<>>, 1), FloatVec("LCL_VAR", "", <<>>, 2),
                   FloatVec("HWINTRINSIC", d.cond, <<1, 2>>, 0),
                   FloatVec("LCL_VAR", "", <<>>, 2), FloatVec("LCL_VAR", "", <<>>, 3),
                   Scalar("CNS_INT", <<>>, d.control, "int"),
                   FloatVec("HWINTRINSIC", "TernaryLogic", <<3, 4, 5, 6>>, 0)>>, d.use)

\* every control byte over three locals; over a comparison the two control
\* bytes that select by the first operand
TernaryLogicInputs ==
    {d \in [kind : {"ternlog"}, control : 0..255, cond : {"v"} \cup VectorCompares, use : BOOLEAN] :
        d.cond # "v" => d.control \in {172, 202}}

AllNodes(ns) == [nodes |-> ns, range |-> [i \in 1..Len(ns) |-> i]]

\* the nodes of an address of the local lcl, the first of them having the id
\* base + 1: the local itself, an LEA over it, or a load through it
AddrLen(addr) == IF addr = "lcl" THEN 1 ELSE 2

AddrNodes(addr, lcl, base) ==
    CASE addr = "lcl" -> <<Scalar("LCL_VAR", <<>>, lcl, "long")>>
      [] addr = "lea" -> <<Scalar("LCL_VAR", <<>>, lcl, "long"), Scalar("LEA", <<base + 1>>, 8, "long")>>
      [] OTHER -> <<Scalar("LCL_VAR", <<>>, lcl, "long"), Scalar("IND", <<base + 1>>, 0, "long")>>

\* the type of a value computed in a register
ValueType(typ) == IF varTypeIsSmall(typ) THEN "int" ELSE typ

OtherOperand(d) ==
    IF d.rkind = "cns" THEN Scalar("CNS_INT", <<>>, 8, ValueType(d.typ))
    ELSE Scalar("LCL_VAR", <<>>, 2, ValueType(d.typ))

\* the value stored: op(IND, r), op(r, IND) or op(IND), the IND having the
\* id ind and r the id r
StoredValue(d, ind, r) ==
    [Scalar(d.op,
         IF ~OperIsBinary(d.op) THEN <<ind>> ELSE IF d.side = 1 THEN <<ind, r>> ELSE <<r, ind>>,
         0, ValueType(d.typ)) EXCEPT !.ovf = d.ovf]

StoreInd(addr, value, typ) ==
    [Scalar("STOREIND", <<addr, value>>, 0, typ) EXCEPT !.rmw = "RMW_STATUS_UNKNOWN"]

\* STOREIND(dst, op(IND(src), r)), with an optional call after the load:
\* a is the length of an address, c the length of the call
StoreNodes(d, a, c) ==
    AddrNodes(d.addr, 1, 0)
    \o AddrNodes(d.addr, d.srcLcl, a)
    \o <<Scalar("IND", <<2 * a>>, 0, d.typ)>>
    \o (IF c = 1 THEN <<Scalar("CALL", <<>>, 0, "void")>> ELSE <<>>)
    \o (IF OperIsBinary(d.op) THEN <<OtherOperand(d)>> ELSE <<>>)
    \o <<StoredValue(d, 2 * a + 1, 2 * a + c + 2)>>
    \o <<StoreInd(a, 2 * a + c + (IF OperIsBinary(d.op) THEN 3 ELSE 2), d.typ)>>

\* STOREIND(dst, v) of a value that is no operation on memory
PlainStoreNodes(d, a) ==
    AddrNodes(d.addr, 1, 0)
    \o <<IF d.op = "SETCC" THEN [Scalar("SETCC", <<>>, 0, "int") EXCEPT !.cc = "EQ"]
         ELSE Scalar(d.op, <<>>, IF d.rkind = "cns" THEN 8 ELSE 2, ValueType(d.typ))>>
    \o <<StoreInd(a, a + 1, d.typ)>>

PlainValues == {"SETCC", "LCL_VAR", "CNS_INT"}

StoreBlock(d) ==
    IF d.op \in PlainValues THEN AllNodes(PlainStoreNodes(d, AddrLen(d.addr)))
    ELSE AllNodes(StoreNodes(d, AddrLen(d.addr), IF d.clobber = "call" THEN 1 ELSE 0))

StoreInputs ==
    {d \in [kind : {"store"}, typ : {"int", "ubyte", "float"},
            op : {"ADD", "SUB", "LSH", "MUL", "NOT", "NEG"} \cup PlainValues,
            side : {1, 2}, srcLcl : {1, 3}, ovf : BOOLEAN,
            clobber : {"none", "call"}, addr : {"lcl", "lea", "ind"},
            rkind : {"lcl", "cns"}] :
        /\ ~OperIsBinary(d.op) => d.side = 1
        /\ d.op \in {"NOT", "NEG"} => d.rkind = "lcl"
        /\ d.op \in PlainValues => d.srcLcl = 1 /\ d.clobber = "none" /\ (d.op = "LCL_VAR") = (d.rkind = "lcl")
        /\ d.ovf => d.op = "ADD" /\ d.clobber = "none" /\ d.rkind = "lcl"
        /\ d.rkind = "cns" => d.srcLcl = 1 /\ d.clobber = "none"
        /\ d.typ = "float" => d.op \in {"ADD", "LCL_VAR"} /\ d.clobber = "none" /\ d.rkind = "lcl" /\ ~d.ovf}

\* a store of the constant val: STOREIND(p, val) or STORE_LCL_VAR<2>(val)
ConstStoreBlock(d) ==
    AllNodes(IF d.dst = "ind"
             THEN <<Scalar("LCL_VAR", <<>>, 1, "long"),
                    Scalar("CNS_INT", <<>>, d.val, ValueType(d.typ)),
                    StoreInd(1, 2, d.typ)>>
             ELSE <<Scalar("CNS_INT", <<>>, d.val, ValueType(d.typ)),
                    Scalar("STORE_LCL_VAR", <<1>>, 2, d.typ)>>)

ConstStoreInputs ==
    [kind : {"cnsstore"}, dst : {"ind", "loc"}, typ : {"ubyte", "short", "int", "long"}, val : {0, 8}]

\* STORE_BLK(p, v) of size bytes, v a constant, INIT_VAL of a constant or
\* INIT_VAL of a local
InitBlockBlock(d) ==
    AllNodes(<<Scalar("LCL_VAR", <<>>, 1, "long")>>
             \o (CASE d.src = "cns" -> <<Scalar("CNS_INT", <<>>, d.val, "int")>>
                   [] d.src = "initcns" -> <<Scalar("CNS_INT", <<>>, d.val, "int"),
                                             Scalar("INIT_VAL", <<2>>, 0, "int")>>
                   [] OTHER -> <<Scalar("LCL_VAR", <<>>, 2, "int"), Scalar("INIT_VAL", <<2>>, 0, "int")>>)
             \o <<[Scalar("STORE_BLK", <<1, IF d.src = "cns" THEN 2 ELSE 3>>, 0, "struct")
                      EXCEPT !.size = d.size, !.gcHeap = d.heap]>>)

InitBlockInputs ==
    {d \in [kind : {"initblk"}, size : {4, 8, 12, 16, 48, 100}, val : {0, 1, 43, 299},
            src : {"cns", "initcns", "initlcl"}, heap : BOOLEAN] :
        d.src = "initlcl" => d.val = 0}

\* RETURN(Insert(Insert(v, zero, i1), x, i2)) of floats, or the chain with
\* the zero inserted last, RETURN(Insert(Insert(v, x, i1), zero, i2))
InsertBlock(d) ==
    LET zero == FloatVec("CNS_VEC", "", <<>>, 0)
        x == FloatVec("LCL_VAR", "", <<>>, 2)
    IN  AllNodes(<<FloatVec("LCL_VAR", "", <<>>, 1),
                   IF d.form = "zx" THEN zero ELSE x,
                   Scalar("CNS_INT", <<>>, d.i1, "int"),
                   FloatVec("HWINTRINSIC", "Insert", <<1, 2, 3>>, 0),
                   IF d.form = "zx" THEN x ELSE zero,
                   Scalar("CNS_INT", <<>>, d.i2, "int"),
                   FloatVec("HWINTRINSIC", "Insert", <<4, 5, 6>>, 0),
                   FloatVec("RETURN", "", <<7>>, 0)>>)

\* the immediates: every zmask and count_d, count_s 0 or 2
InsertImms == {s * 64 + dz : s \in {0, 2}, dz \in 0..63}

InsertInputs ==
    {d \in [kind : {"insert"}, form : {"zx", "xz"}, i1 : InsertImms, i2 : InsertImms] :
        d.form = "xz" => d.i1 < 64 /\ d.i2 < 64}

\* CALL(target) after an optional store through another address
CallBlock(d) ==
    AllNodes(<<Scalar("LCL_VAR", <<>>, 1, "long")>>
             \o (IF d.target = "ind" THEN <<Scalar("IND", <<1>>, 0, "long")>> ELSE <<>>)
             \o (IF d.clobber = "store"
                 THEN <<Scalar("LCL_VAR", <<>>, 3, "long"), Scalar("LCL_VAR", <<>>, 2, "int"),
                        StoreInd(AddrLen(d.target) + 1, AddrLen(d.target) + 2, "int")>>
                 ELSE <<>>)
             \o <<Scalar("CALL", <<AddrLen(d.target)>>, 0, "void")>>)

CallInputs == [kind : {"call"}, target : {"ind", "lcl"}, clobber : {"none", "store"}]

\* RETURN(MUL(x, c))
MulOperandLen(x) == CASE x = "lcl" -> 1 [] x = "ind" -> 2 [] OTHER -> 3

MulOperand(x) ==
    CASE x = "lcl" -> <<Scalar("LCL_VAR", <<>>, 1, "int")>>
      [] x = "ind" -> <<Scalar("LCL_VAR", <<>>, 1, "long"), Scalar("IND", <<1>>, 0, "int")>>
      [] OTHER -> <<Scalar("LCL_VAR", <<>>, 1, "int"), Scalar("LCL_VAR", <<>>, 2, "int"),
                    Scalar("ADD", <<1, 2>>, 0, "int")>>

MulNodes(d, n) ==
    MulOperand(d.x)
    \o <<Scalar("CNS_INT", <<>>, d.c, "int"),
         [Scalar("MUL", <<n, n + 1>>, 0, "int") EXCEPT !.ovf = d.ovf],
         Scalar("RETURN", <<n + 2>>, 0, "int")>>

MulBlock(d) == AllNodes(MulNodes(d, MulOperandLen(d.x)))

MulConstants == {1, 2, 3, 5, 6, 7, 8, 9, 17}

MulInputs ==
    {d \in [kind : {"mul"}, x : {"lcl", "ind", "add"}, c : MulConstants, ovf : BOOLEAN] :
        d.ovf => d.c = 7}

\* RETURN(ConditionalSelect(op1, op2, op3)), the operands in this order
VecOf(oper, hw, ops, ival, d) ==
    [Node(oper, hw, ops, ival, "simd") EXCEPT !.size = d.size, !.base = d.base]

CndSelConditionLen(op1) == CASE op1 = "v" -> 1 [] op1 = "cvt" -> 2 [] OTHER -> 3

CndSelCondition(d) ==
    CASE d.op1 = "v" -> <<VecOf("LCL_VAR", "", <<>>, 1, d)>>
      [] d.op1 = "cvt" -> <<[VecOf("LCL_VAR", "", <<>>, 1, d) EXCEPT !.typ = "mask"],
                            VecOf("HWINTRINSIC", "ConvertMaskToVector", <<1>>, 0, d)>>
      [] OTHER -> <<VecOf("LCL_VAR", "", <<>>, 1, d), VecOf("LCL_VAR", "", <<>>, 2, d),
                    VecOf("HWINTRINSIC", "CompareEqual", <<1, 2>>, 0, d)>>

CndSelValue(kind, lcl, d) ==
    IF kind = "v" THEN VecOf("LCL_VAR", "", <<>>, lcl, d) ELSE VecOf("CNS_VEC", "", <<>>, 0, d)

CndSelNodes(d, n) ==
    CndSelCondition(d)
    \o <<CndSelValue(d.op2, 2, d), CndSelValue(d.op3, 3, d),
         VecOf("HWINTRINSIC", "ConditionalSelect", <<n, n + 1, n + 2>>, 0, d)>>

CndSelBlock(d) == WithUse(CndSelNodes(d, CndSelConditionLen(d.op1)), d.use)

CndSelInputs ==
    {d \in [kind : {"cndsel"}, op1 : {"v", "cvt", "cmp"}, op2 : {"v", "zero"}, op3 : {"v", "zero"},
            size : {16, 32, 64}, base : {"int", "float"}, use : BOOLEAN] :
        ~(d.op2 = "zero" /\ d.op3 = "zero")}

\* RETURN(CAST(x)) of a floating value x to an integer type
CastOperandLen(x) == IF x = "lcl" THEN 1 ELSE 2

CastOperand(d) ==
    IF d.x = "lcl" THEN <<Scalar("LCL_VAR", <<>>, 1, d.src)>>
    ELSE <<Scalar("LCL_VAR", <<>>, 1, "long"), Scalar("IND", <<1>>, 0, d.src)>>

CastNodes(d, n) ==
    CastOperand(d) \o <<Scalar("CAST", <<n>>, 0, d.dst), Scalar("RETURN", <<n + 1>>, 0, genActualType(d.dst))>>

CastBlock(d) == AllNodes(CastNodes(d, CastOperandLen(d.x)))

CastInputs ==
    [kind : {"cast"}, x : {"lcl", "ind"}, src : {"float", "double"}, dst : {"int", "uint", "long", "ulong"}]

\* a consumer of op_Equality / op_Inequality (op1, op2): a branch, a return
\* of the boolean, or none
CmpOpOperandLen(op1) ==
    CASE op1 = "v" -> 1 [] op1 = "cvt" -> 2 [] op1 \in {"cvtcmp", "cvtcmpz"} -> 4
      [] op1 = "cvtmode" -> 5 [] OTHER -> 3

CmpOpOperand(d) ==
    CASE d.op1 = "v" -> <<VecOf("LCL_VAR", "", <<>>, 1, d)>>
      [] d.op1 = "cvt" -> <<[VecOf("LCL_VAR", "", <<>>, 1, d) EXCEPT !.typ = "mask"],
                            VecOf("HWINTRINSIC", "ConvertMaskToVector", <<1>>, 0, d)>>
      [] d.op1 = "cvtcmp" -> <<VecOf("LCL_VAR", "", <<>>, 1, d), VecOf("LCL_VAR", "", <<>>, 2, d),
                               [VecOf("HWINTRINSIC", "CompareEqualMask", <<1, 2>>, 0, d)
                                   EXCEPT !.typ = "mask"],
                               VecOf("HWINTRINSIC", "ConvertMaskToVector", <<3>>, 0, d)>>
      [] d.op1 = "cvtcmpz" -> <<VecOf("LCL_VAR", "", <<>>, 1, d), VecOf("CNS_VEC", "", <<>>, 0, d),
                                [VecOf("HWINTRINSIC", "CompareEqualMask", <<1, 2>>, 0, d)
                                    EXCEPT !.typ = "mask"],
                                VecOf("HWINTRINSIC", "ConvertMaskToVector", <<3>>, 0, d)>>
      [] d.op1 = "cvtmode" -> <<VecOf("LCL_VAR", "", <<>>, 1, d), VecOf("LCL_VAR", "", <<>>, 2, d),
                                Scalar("CNS_INT", <<>>, d.mode, "int"),
                                [VecOf("HWINTRINSIC", "Compare", <<1, 2, 3>>, 0, d)
                                    EXCEPT !.typ = "mask"],
                                VecOf("HWINTRINSIC", "ConvertMaskToVector", <<4>>, 0, d)>>
      [] d.op1 = "and" -> <<VecOf("LCL_VAR", "", <<>>, 1, d), VecOf("LCL_VAR", "", <<>>, 2, d),
                            VecOf("HWINTRINSIC", "AND", <<1, 2>>, 0, d)>>
      [] OTHER -> <<VecOf("LCL_VAR", "", <<>>, 1, d), VecOf("LCL_VAR", "", <<>>, 2, d),
                    VecOf("HWINTRINSIC", "AND_NOT", <<1, 2>>, 0, d)>>

CmpOpComparand(d) ==
    CASE d.op2 = "zero" -> VecOf("CNS_VEC", "", <<>>, 0, d)
      [] d.op2 = "ones" -> VecOf("CNS_VEC", "", <<>>, 255, d)
      [] OTHER -> VecOf("LCL_VAR", "", <<>>, 3, d)

CmpOpNodes(d, n) ==
    CmpOpOperand(d)
    \o <<CmpOpComparand(d),
         [VecOf("HWINTRINSIC", IF d.cmp = "EQ" THEN "op_Equality" ELSE "op_Inequality",
                <<n, n + 1>>, 0, d) EXCEPT !.typ = "int", !.unused = d.use = "none"]>>
    \o (CASE d.use = "jtrue" -> <<Scalar("JTRUE", <<n + 2>>, 0, "void")>>
          [] d.use = "return" -> <<Scalar("RETURN", <<n + 2>>, 0, "int")>>
          [] OTHER -> <<>>)

CmpOpBlock(d) == AllNodes(CmpOpNodes(d, CmpOpOperandLen(d.op1)))

\* the modes of a comparison of floats that have an inverse, and the modes
\* OrderedEqual (0) and OrderedLessThan (1)
CompareModes == {0, 1, 8, 11, 12, 15, 24, 27, 28, 31}

\* vectors of int and float elements in every shape; two locals of the other
\* element sizes; the mask of a comparison of two locals with a mode
CmpOpInputs ==
    [kind : {"cmpop"}, op1 : {"v", "and", "andnot", "cvt", "cvtcmp", "cvtcmpz"},
     op2 : {"zero", "ones", "v"},
     size : {16, 32, 64}, base : {"int", "float"}, cmp : {"EQ", "NE"},
     use : {"jtrue", "return", "none"}]
    \cup [kind : {"cmpop"}, op1 : {"v"}, op2 : {"v"},
          size : {16, 32, 64}, base : {"byte", "short", "long", "double"}, cmp : {"EQ", "NE"},
          use : {"jtrue", "return", "none"}]
    \cup [kind : {"cmpop"}, op1 : {"cvtmode"}, op2 : {"ones", "zero"},
          size : {16, 32}, base : {"float", "double"}, cmp : {"EQ", "NE"},
          use : {"jtrue", "return"}, mode : CompareModes]

\* the scalar bit patterns: root(X, inner) when side = 2, root(inner, X) when
\* side = 1, where inner is NOT(Y), NEG(X') or ADD(X', c); X' reads X unless
\* other = "lcl", c is -1 unless other = "cns"; flags tells which node, if
\* any, sets CPU flags that a later node reads
BitOpInner(d, b) ==
    CASE d.pat = "andn" ->
           <<Scalar("LCL_VAR", <<>>, 2, d.typ),
             [Scalar("NOT", <<b + 1>>, 0, d.typ) EXCEPT !.setFlags = d.flags = "inner"]>>
      [] d.pat = "blsi" ->
           <<Scalar("LCL_VAR", <<>>, IF d.other = "lcl" THEN 2 ELSE 1, d.typ),
             [Scalar("NEG", <<b + 1>>, 0, d.typ) EXCEPT !.setFlags = d.flags = "inner"]>>
      [] OTHER ->
           <<Scalar("LCL_VAR", <<>>, IF d.other = "lcl" THEN 2 ELSE 1, d.typ),
             Scalar("CNS_INT", <<>>, IF d.other = "cns" THEN 1 ELSE -1, d.typ),
             [Scalar("ADD", <<b + 1, b + 2>>, 0, d.typ) EXCEPT !.setFlags = d.flags = "inner"]>>

BitOpInnerLen(pat) == IF pat \in {"andn", "blsi"} THEN 2 ELSE 3

BitOpRoot(d, op1, op2) ==
    [Scalar(IF d.pat = "blsmsk" THEN "XOR" ELSE "AND", <<op1, op2>>, 0, d.typ)
        EXCEPT !.setFlags = d.flags = "root", !.unused = ~d.use]

BitOpNodes(d, n) ==
    (IF d.side = 2
     THEN <<Scalar("LCL_VAR", <<>>, 1, d.typ)>> \o BitOpInner(d, 1) \o <<BitOpRoot(d, 1, n + 1)>>
     ELSE BitOpInner(d, 0) \o <<Scalar("LCL_VAR", <<>>, 1, d.typ), BitOpRoot(d, n, n + 1)>>)
    \o (IF d.use THEN <<Scalar("RETURN", <<n + 2>>, 0, d.typ)>> ELSE <<>>)

BitOpBlock(d) == AllNodes(BitOpNodes(d, BitOpInnerLen(d.pat)))

BitOpInputs ==
    {d \in [kind : {"bitop"}, pat : {"andn", "blsr", "blsi", "blsmsk"}, side : {1, 2},
            typ : {"int", "long"}, flags : {"none", "root", "inner"}, use : BOOLEAN,
            other : {"same", "lcl", "cns"}] :
        /\ d.pat = "andn" => d.other = "same"
        /\ d.pat = "blsi" => d.other # "cns"}

\* STOREIND(LEA(b, i), op(IND(LEA(b, i')), r)): between the load and the
\* operator there may be a call, or a store to the local b or to the local i
RMWAddrModeClobber(d) ==
    CASE d.clobber = "call" -> <<Scalar("CALL", <<>>, 0, "void")>>
      [] d.clobber = "base" -> <<Scalar("CNS_INT", <<>>, 8, "long"), Scalar("STORE_LCL_VAR", <<8>>, 1, "long")>>
      [] d.clobber = "index" -> <<Scalar("CNS_INT", <<>>, 8, "long"), Scalar("STORE_LCL_VAR", <<8>>, 2, "long")>>
      [] OTHER -> <<>>

RMWAddrModeNodes(d, c) ==
    <<Scalar("LCL_VAR", <<>>, 1, "long"), Scalar("LCL_VAR", <<>>, 2, "long"),
      Scalar("LEA", <<1, 2>>, 8, "long"),
      Scalar("LCL_VAR", <<>>, 1, "long"), Scalar("LCL_VAR", <<>>, d.index, "long"),
      Scalar("LEA", <<4, 5>>, 8, "long"), Scalar("IND", <<6>>, 0, "int")>>
    \o RMWAddrModeClobber(d)
    \o (IF d.op = "NEG"
        THEN <<Scalar("NEG", <<7>>, 0, "int"), StoreInd(3, c + 8, "int")>>
        ELSE <<Scalar("LCL_VAR", <<>>, 3, "int"),
               Scalar(d.op, IF d.side = 1 THEN <<7, c + 8>> ELSE <<c + 8, 7>>, 0, "int"),
               StoreInd(3, c + 9, "int")>>)

RMWAddrModeBlock(d) == AllNodes(RMWAddrModeNodes(d, Len(RMWAddrModeClobber(d))))

RMWAddrModeInputs ==
    {d \in [kind : {"rmwlea"}, op : {"ADD", "SUB", "NEG"}, side : {1, 2}, index : {1, 2},
            clobber : {"none", "call", "base", "index"}] :
        d.op = "NEG" => d.side = 1}

\* RETURN(oper(x, y)): each operand is one of the locals 1..3, a local that
\* liveness does not track, or the negation of local 1
BinOpOperand(x) ==
    CASE x = "neg" -> <<Scalar("LCL_VAR", <<>>, 1, "int"), Scalar("NEG", <<1>>, 0, "int")>>
      [] x = "tmp" -> <<Scalar("LCL_VAR", <<>>, 4, "int")>>
      [] x = "lcl1" -> <<Scalar("LCL_VAR", <<>>, 1, "int")>>
      [] x = "lcl2" -> <<Scalar("LCL_VAR", <<>>, 2, "int")>>
      [] OTHER -> <<Scalar("LCL_VAR", <<>>, 3, "int")>>

BinOpNodes(d, n1, n2) ==
    BinOpOperand(d.x)
    \o [i \in 1..n2 |-> [BinOpOperand(d.y)[i] EXCEPT !.ops = [k \in DOMAIN @ |-> @[k] + n1]]]
    \o <<Scalar(d.oper, <<n1, n1 + n2>>, 0, "int"), Scalar("RETURN", <<n1 + n2 + 1>>, 0, "int")>>

BinOpBlock(d) == AllNodes(BinOpNodes(d, Len(BinOpOperand(d.x)), Len(BinOpOperand(d.y))))

BinOpInputs ==
    [kind : {"binop"}, oper : {"ADD", "AND", "SUB"}, x : {"lcl1", "lcl2", "lcl3", "tmp", "neg"},
     y : {"lcl1", "lcl2", "lcl3", "tmp", "neg"}]

BuildBlock(d) ==
    CASE d.kind = "bitwise" -> BitwiseBlock(d)
      [] d.kind = "store" -> StoreBlock(d)
      [] d.kind = "call" -> CallBlock(d)
      [] d.kind = "mul" -> MulBlock(d)
      [] d.kind = "cndsel" -> CndSelBlock(d)
      [] d.kind = "cast" -> CastBlock(d)
      [] d.kind = "ternlog" -> TernaryLogicBlock(d)
      [] d.kind = "cmpop" -> CmpOpBlock(d)
      [] d.kind = "bitop" -> BitOpBlock(d)
      [] d.kind = "cnsstore" -> ConstStoreBlock(d)
      [] d.kind = "initblk" -> InitBlockBlock(d)
      [] d.kind = "insert" -> InsertBlock(d)
      [] d.kind = "binop" -> BinOpBlock(d)
      [] d.kind = "rmwlea" -> RMWAddrModeBlock(d)

Inputs == BitwiseInputs \cup StoreInputs \cup CallInputs \cup MulInputs \cup CndSelInputs \cup CastInputs
              \cup CmpOpInputs \cup BitOpInputs \cup TernaryLogicInputs \cup ConstStoreInputs
              \cup InitBlockInputs \cup BinOpInputs \cup RMWAddrModeInputs

\* weighted reference counts of the locals 1..3 and the local at its last use
Profiles ==
    {[wt |-> <<1, 1, 1>>, lastUse |-> 0], [wt |-> <<1, 2, 2>>, lastUse |-> 0],
     [wt |-> <<2, 1, 2>>, lastUse |-> 0], [wt |-> <<1, 1, 1>>, lastUse |-> 3]}

\* a machine with AVX2 and no AVX-512, optimizing; exposed is the local
\* whose address is exposed, if there is one; unroll and unrollGpr are the
\* sizes up to which a block initialisation is unrolled, with SIMD stores
\* and without
Config ==
    [avx512 |-> FALSE, avx10v2 |-> FALSE, avx2 |-> TRUE, sse42 |-> TRUE, opts |-> TRUE,
     wt |-> <<1, 2, 2>>, lastUse |-> 0, exposed |-> 0, x86 |-> FALSE,
     unroll |-> 64, unrollGpr |-> 32]

\* the instruction sets (each one implies the older ones) with which a block
\* of vectors of the given size can exist
VectorConfigs(size) ==
    {[Config EXCEPT !.avx512 = isa >= 3, !.avx2 = isa >= 2, !.sse42 = isa >= 1] :
        isa \in IF size = 64 THEN {3} ELSE IF size = 32 THEN 1..3 ELSE 0..3}

\* the instruction sets and the profile matter to the vector blocks, AVX2
\* and the optimization level to the scalar ones
ConfigsFor(d) ==
    CASE d.kind = "bitwise" ->
           {[Config EXCEPT !.avx512 = a, !.wt = p.wt, !.lastUse = p.lastUse] : a \in BOOLEAN, p \in Profiles}
      [] d.kind = "mul" ->
           {[Config EXCEPT !.avx2 = a, !.opts = o, !.x86 = t] :
               a \in BOOLEAN, o \in BOOLEAN, t \in BOOLEAN}
      [] d.kind = "cndsel" -> VectorConfigs(d.size)
      [] d.kind = "ternlog" -> {[Config EXCEPT !.avx512 = TRUE]}
      [] d.kind = "cmpop" ->
           {c \in VectorConfigs(d.size) :
               (d.op1 \in {"cvt", "cvtcmp", "cvtcmpz", "cvtmode"} \/ d.base \notin {"int", "float"}) => c.avx512}
      [] d.kind = "bitop" ->
           {c \in {[Config EXCEPT !.avx2 = a, !.opts = o, !.exposed = e] :
                       a \in BOOLEAN, o \in BOOLEAN, e \in {0, 1}} :
               c.exposed = 1 => c.avx2 /\ c.opts}
      [] d.kind = "cast" ->
           {c \in {[Config EXCEPT !.avx512 = isa >= 1, !.avx10v2 = isa >= 2, !.sse42 = e,
                              !.avx2 = e, !.x86 = t] :
                       isa \in 0..2, e \in BOOLEAN, t \in BOOLEAN} :
               /\ c.avx512 => c.sse42
               /\ c.x86 => d.dst \in {"int", "uint"}}
      [] d.kind = "initblk" -> {[Config EXCEPT !.x86 = t] : t \in BOOLEAN}
      [] d.kind = "insert" -> {Config}
      [] d.kind = "binop" ->
           {[Config EXCEPT !.wt = p.wt, !.exposed = e] : p \in Profiles, e \in {0, 2}}
      [] d.kind = "cnsstore" ->
           {c \in {[Config EXCEPT !.x86 = t] : t \in BOOLEAN} : c.x86 => d.typ # "long"}
      [] OTHER -> {[Config EXCEPT !.avx2 = a] : a \in BOOLEAN}

-----------------------------------------------------------------------------
(* The lowering walk                                                       *)

State == [nodes |-> nodes, range |-> range, cfg |-> input.cfg]

InitOf(blocks) ==
    \E d \in blocks : \E c \in ConfigsFor(d) :
        /\ input = [desc |-> d, cfg |-> c, nodes |-> BuildBlock(d).nodes, range |-> BuildBlock(d).range]
        /\ nodes = BuildBlock(d).nodes
        /\ range = BuildBlock(d).range
        /\ cur = 1
        /\ pass = 1
        /\ snap = [nodes |-> <<>>, range |-> <<>>]

Init == InitOf(Inputs)

\* the chains of two Insert alone, with every pair of immediates
InitInsert == InitOf(InsertInputs)

Advance(r) ==
    /\ nodes' = r.s.nodes
    /\ range' = r.s.range
    /\ cur' = r.next
    /\ UNCHANGED <<pass, snap, input>>

\* one step for each handler: LowerNode hands the current node to the
\* handler of its operator
LowerHWIntrinsicStep ==
    /\ cur # 0
    /\ nodes[cur].oper = "HWINTRINSIC"
    /\ Advance(LowerNode(State, cur))

LowerStoreIndirStep ==
    /\ cur # 0
    /\ nodes[cur].oper = "STOREIND"
    /\ Advance(LowerNode(State, cur))

LowerStoreLocStep ==
    /\ cur # 0
    /\ nodes[cur].oper = "STORE_LCL_VAR"
    /\ Advance(LowerNode(State, cur))

LowerBinaryArithmeticStep ==
    /\ cur # 0
    /\ nodes[cur].oper \in {"ADD", "SUB", "AND", "OR", "XOR"}
    /\ Advance(LowerNode(State, cur))

LowerShiftStep ==
    /\ cur # 0
    /\ nodes[cur].oper \in {"LSH", "RSH"}
    /\ Advance(LowerNode(State, cur))

LowerMulStep ==
    /\ cur # 0
    /\ nodes[cur].oper = "MUL"
    /\ Advance(LowerNode(State, cur))

LowerIndirStep ==
    /\ cur # 0
    /\ nodes[cur].oper = "IND"
    /\ Advance(LowerNode(State, cur))

LowerCallStep ==
    /\ cur # 0
    /\ nodes[cur].oper = "CALL"
    /\ Advance(LowerNode(State, cur))

LowerCastStep ==
    /\ cur # 0
    /\ nodes[cur].oper = "CAST"
    /\ Advance(LowerNode(State, cur))

LowerBlockStoreStep ==
    /\ cur # 0
    /\ nodes[cur].oper = "STORE_BLK"
    /\ Advance(LowerNode(State, cur))

LowerCompareStep ==
    /\ cur # 0
    /\ nodes[cur].oper \in {"EQ", "NE"}
    /\ Advance(LowerNode(State, cur))

HandledOpers ==
    {"HWINTRINSIC", "STOREIND", "STORE_LCL_VAR", "ADD", "SUB", "AND", "OR", "XOR", "LSH", "RSH", "MUL",
     "IND",
     "CALL", "CAST", "EQ", "NE", "STORE_BLK"}

\* nodes with nothing to lower
LowerLeafStep ==
    /\ cur # 0
    /\ nodes[cur].oper \notin HandledOpers
    /\ Advance(LowerNode(State, cur))

\* the walk reached the end of the block: lower the output again
StartNextPass ==
    /\ cur = 0
    /\ pass < NumPasses
    /\ snap' = [nodes |-> nodes, range |-> range]
    /\ pass' = pass + 1
    /\ cur' = range[1]
    /\ UNCHANGED <<nodes, range, input>>

Next ==
    \/ LowerHWIntrinsicStep
    \/ LowerStoreIndirStep
    \/ LowerStoreLocStep
    \/ LowerBinaryArithmeticStep
    \/ LowerShiftStep
    \/ LowerMulStep
    \/ LowerIndirStep
    \/ LowerCallStep
    \/ LowerCastStep
    \/ LowerCompareStep
    \/ LowerBlockStoreStep
    \/ LowerLeafStep
    \/ StartNextPass

Spec == Init /\ [][Next]_vars

NextInsert ==
    \/ LowerHWIntrinsicStep
    \/ LowerLeafStep
    \/ StartNextPass

SpecInsert == InitInsert /\ [][NextInsert]_vars

-----------------------------------------------------------------------------
(* Properties                                                              *)

Consumers == {n \in RangeSet(State) : nodes[n].oper = "RETURN"}

\* the node that consumer n reads
Consumed(n) == nodes[n].ops[1]

\* a TernaryLogic node that fusion made out of a bitwise operator
IsFused(n) ==
    /\ nodes[n].oper = "HWINTRINSIC"
    /\ nodes[n].hw = "TernaryLogic"
    /\ n \in DOMAIN input.nodes
    /\ input.nodes[n].hw \in BitwiseOpers

\* C1: whenever fusion has produced a TernaryLogic node, its control byte,
\* read as a truth table over A, B, C and applied to the node's operands,
\* gives the consumer the value the original unfused expression gave it
C1_FusionPreservesFunction ==
    \A n \in Consumers : IsFused(Consumed(n)) => Eval(State, n) = Eval(input, n)

\* C1 witness: AND_NOT(x, XOR(a, b)), the inner operator on the right of a
\* non-commutative outer one, has been fused
C1_Witness ==
    /\ input.desc.kind = "bitwise"
    /\ input.desc.userOper = "AND_NOT" /\ input.desc.oper = "XOR" /\ input.desc.side = 2
    /\ input.desc.l2 = "v" /\ input.desc.l3 = "v"
    /\ \E n \in Consumers : IsFused(Consumed(n))


\* the input is AND(XOR(a, b), c) over three locals, with a consumer, and
\* EVEX is available; its nodes are a = 1, b = 2, XOR = 3, c = 4, AND = 5
IsAndOfXor ==
    /\ input.desc.kind = "bitwise" /\ input.cfg.avx512
    /\ input.desc.oper = "XOR" /\ input.desc.userOper = "AND" /\ input.desc.side = 1
    /\ input.desc.l2 = "v" /\ input.desc.l3 = "v" /\ input.desc.use

HWNodesInRange == {n \in RangeSet(State) : nodes[n].oper = "HWINTRINSIC"}

\* C2 (as the code behaves): once the XOR of AND(XOR(a, b), c) is lowered,
\* the only intrinsic left is one TernaryLogic over a, b, c computing
\* (a XOR b) AND c; fusion itself builds TernaryLogic(a, b, c, 0x28), and
\* whenever the operands stand in the order a, b, c the control byte is 0x28
C2_AndOfXorFusesTo0x28 ==
    (IsAndOfXor /\ ~InRange(State, 3)) =>
        /\ HWNodesInRange = {5}
        /\ nodes[5].hw = "TernaryLogic"
        /\ {nodes[5].ops[k] : k \in 1..3} = {1, 2, 4}
        /\ Eval(State, 5) = ByteAnd(ByteXor(A, B), C)
        /\ SubSeq(nodes[5].ops, 1, 3) = <<1, 2, 4>> => nodes[nodes[5].ops[4]].ival = 40
        /\ (pass = 1 /\ cur \in {4, 5}) => SubSeq(nodes[5].ops, 1, 3) = <<1, 2, 4>>

\* C2 witness: the fused node is TernaryLogic(a, b, c, 0x28)
C2_Witness ==
    /\ IsAndOfXor /\ ~InRange(State, 3)
    /\ nodes[5].hw = "TernaryLogic"
    /\ SubSeq(nodes[5].ops, 1, 3) = <<1, 2, 4>>
    /\ nodes[nodes[5].ops[4]].ival = 40

\* C2 as stated: the fused node is TernaryLogic(a, b, c, 0x60)
C2_AsStated ==
    (IsAndOfXor /\ ~InRange(State, 3) /\ pass = 1 /\ cur \in {4, 5}) =>
        /\ nodes[5].hw = "TernaryLogic"
        /\ SubSeq(nodes[5].ops, 1, 3) = <<1, 2, 4>>
        /\ nodes[nodes[5].ops[4]].ival = 96

\* the input is NOT(NOT(x)), each NOT an XOR with all-bits-set, and EVEX is
\* available, so that lowering the inner XOR reaches the double-NOT case
IsDoubleNot ==
    /\ input.desc.kind = "bitwise" /\ input.cfg.avx512
    /\ input.desc.oper = "XOR" /\ input.desc.userOper = "XOR"
    /\ input.desc.l2 = "ones" /\ input.desc.l3 = "ones"

\* the nodes of NOT(NOT(x)): x and the inner XOR
DoubleNotX == IF input.desc.side = 1 THEN 1 ELSE 2
DoubleNotInner == IF input.desc.side = 1 THEN 3 ELSE 4

\* C3: once the inner XOR of NOT(NOT(x)) is lowered, the range holds x and
\* the consumer only: the consumer reads x (x is marked unused when there is
\* no consumer), and both XORs and both constants are gone
C3_DoubleNotLeavesOperand ==
    (IsDoubleNot /\ ~InRange(State, DoubleNotInner)) =>
        IF input.desc.use
        THEN range = <<DoubleNotX, 6>> /\ nodes[6].ops = <<DoubleNotX>>
        ELSE range = <<DoubleNotX>> /\ nodes[DoubleNotX].unused

\* C3 witness: a double NOT without consumer has been reduced to x, unused
C3_Witness ==
    /\ IsDoubleNot /\ ~input.desc.use /\ ~InRange(State, DoubleNotInner)
    /\ range = <<DoubleNotX>> /\ nodes[DoubleNotX].unused


-----------------------------------------------------------------------------
(* Indirect stores                                                         *)

Stores == {n \in RangeSet(State) : nodes[n].oper = "STOREIND"}

\* the walk has lowered the node n of the block
Lowered(n) == InRange(State, n) /\ (pass > 1 \/ cur = 0 \/ Pos(State, n) < Pos(State, cur))

RECURSIVE AddressExpr(_)

\* the address expression rooted at n, read off the nodes
AddressExpr(n) ==
    <<nodes[n].oper, nodes[n].ival>>
        \o (IF nodes[n].ops = <<>> THEN <<>> ELSE AddressExpr(nodes[n].ops[1]))

\* n is a load from the destination of the store st
LoadsDestination(n, st) ==
    /\ nodes[n].oper = "IND"
    /\ genTypeSize(nodes[n].typ) = genTypeSize(nodes[st].typ)
    /\ AddressExpr(nodes[n].ops[1]) = AddressExpr(nodes[st].ops[1])

ValueOf(st) == nodes[nodes[st].ops[2]]

\* C4 as stated: a store marked RMW_DST_IS_OP1 has a binary value whose left
\* operand loads the store's destination, and a store marked RMW_DST_IS_OP2
\* a binary value whose right operand does
C4_AsStated ==
    \A st \in Stores :
        /\ nodes[st].rmw = "RMW_DST_IS_OP1" =>
               OperIsBinary(ValueOf(st).oper) /\ LoadsDestination(ValueOf(st).ops[1], st)
        /\ nodes[st].rmw = "RMW_DST_IS_OP2" =>
               OperIsBinary(ValueOf(st).oper) /\ LoadsDestination(ValueOf(st).ops[2], st)

\* C4: a store marked RMW_DST_IS_OP1 has as its value a binary operator whose
\* left operand, or a NOT or NEG whose only operand, loads the store's
\* destination; a store marked RMW_DST_IS_OP2 has a commutative binary value
\* whose right operand loads the store's destination
C4_RMWOperandLoadsDestination ==
    \A st \in Stores :
        /\ nodes[st].rmw = "RMW_DST_IS_OP1" =>
               /\ OperIsBinary(ValueOf(st).oper) \/ ValueOf(st).oper \in {"NOT", "NEG"}
               /\ LoadsDestination(ValueOf(st).ops[1], st)
        /\ nodes[st].rmw = "RMW_DST_IS_OP2" =>
               /\ OperIsBinary(ValueOf(st).oper) /\ OperIsCommutative(ValueOf(st).oper)
               /\ LoadsDestination(ValueOf(st).ops[2], st)

\* a store of NEG(IND(p)) to p is marked RMW_DST_IS_OP1
C4_Witness ==
    \E st \in Stores :
        /\ nodes[st].rmw = "RMW_DST_IS_OP1"
        /\ ValueOf(st).oper = "NEG"
        /\ LoadsDestination(ValueOf(st).ops[1], st)

ResolvedRMWStatus ==
    {"RMW_DST_IS_OP1", "RMW_DST_IS_OP2",
     "RMW_UNSUPPORTED_ADDR", "RMW_UNSUPPORTED_OPER", "RMW_UNSUPPORTED_TYPE"}

IsIntegerAddToMemory ==
    /\ input.desc.kind = "store"
    /\ input.desc.op = "ADD" /\ input.desc.side = 1 /\ ~input.desc.ovf
    /\ input.desc.addr = "lcl" /\ input.desc.srcLcl = 1
    /\ input.desc.rkind = "lcl" /\ input.desc.clobber = "none"
    /\ input.desc.typ # "float"

\* C6: once STOREIND(p, ADD(IND(p), r)) is lowered the block has one store;
\* it is marked RMW_DST_IS_OP1, its value is still the ADD of the load and r,
\* and the ADD and the load are both contained
C6_AddToMemoryIsRMW ==
    IsIntegerAddToMemory =>
        /\ Cardinality(Stores) = 1
        /\ \A st \in Stores :
               Lowered(st) =>
                   /\ nodes[st].rmw = "RMW_DST_IS_OP1"
                   /\ ValueOf(st).oper = "ADD"
                   /\ ValueOf(st).contained
                   /\ LoadsDestination(ValueOf(st).ops[1], st)
                   /\ nodes[ValueOf(st).ops[1]].contained
                   /\ ~nodes[ValueOf(st).ops[2]].contained

C6_Witness ==
    /\ IsIntegerAddToMemory
    /\ \E st \in Stores : Lowered(st) /\ nodes[st].rmw = "RMW_DST_IS_OP1" /\ ValueOf(st).contained

C7_ExceptCallTargets ==
    \A c \in RangeSet(State) :
        nodes[c].oper = "IND" /\ nodes[c].contained =>
            \A p \in Uses(State, c) : nodes[p].oper # "CALL" => IsInvariantInRange(State, c, p)


-----------------------------------------------------------------------------
(* The block range                                                         *)

\* C8: every operand edge of every node of the block range names a node that
\* stands earlier in the same range
C8_OperandsPrecedeUsers ==
    \A n \in RangeSet(State) :
        \A k \in DOMAIN nodes[n].ops :
            /\ InRange(State, nodes[n].ops[k])
            /\ Pos(State, nodes[n].ops[k]) < Pos(State, n)

RewrittenNodes == {n \in RangeSet(State) : n \notin DOMAIN input.nodes}

\* MUL(x, 7), x not a local, has become SUB(LSH(t, 3), t) over a new
\* temporary t: nodes were inserted, removed and re-linked
C8_Witness ==
    /\ input.desc.kind = "mul" /\ input.desc.c = 7 /\ input.desc.x = "add"
    /\ \E n \in RangeSet(State) :
           /\ nodes[n].oper = "SUB"
           /\ nodes[nodes[n].ops[1]].oper = "LSH"
           /\ nodes[n].ops[1] \in RewrittenNodes
           /\ nodes[n].ops[2] \in RewrittenNodes
    /\ \E n \in RewrittenNodes : nodes[n].oper = "STORE_LCL_VAR"

-----------------------------------------------------------------------------
(* Lowering the output of lowering                                         *)

\* the block is as it was when the current run over lowered output began
UnchangedSinceRunBegan == range = snap.range /\ nodes = snap.nodes

\* C9: running lowering a second time on the output of lowering changes
\* nothing: no node is replaced, inserted, removed or retyped, and no
\* containment or RMW status changes during the second run
C9_SecondRunChangesNothing == pass > 1 => UnchangedSinceRunBegan

\* the second run changes nothing in the blocks of indirect stores, calls
\* and multiplications
C9_ScalarBlocksUnchanged ==
    (pass > 1 /\ input.desc.kind \in {"store", "call", "mul"}) => UnchangedSinceRunBegan

-----------------------------------------------------------------------------
(* Vector equality                                                         *)

\* a branch on op_Equality(v, Zero), v a local vector of int elements and of
\* the given size in bytes, on a machine with EVEX
BranchOnEqualsZero(size) ==
    /\ input.desc.kind = "cmpop"
    /\ input.desc.op1 = "v" /\ input.desc.op2 = "zero" /\ input.desc.cmp = "EQ"
    /\ input.desc.base = "int" /\ input.desc.size = size
    /\ input.desc.use = "jtrue"
    /\ input.cfg.avx512

\* the comparison and the branch of such a block
EqualityNode ==
    CHOOSE n \in DOMAIN input.nodes : input.nodes[n].hw = "op_Equality"

BranchNode ==
    CHOOSE n \in DOMAIN input.nodes : input.nodes[n].oper = "JTRUE"

\* n has two operands, both of them reads of the local that is compared
TestsLocalWithItself(n) ==
    /\ Len(nodes[n].ops) = 2
    /\ \A k \in 1..2 : /\ nodes[nodes[n].ops[k]].oper = "LCL_VAR"
                       /\ nodes[nodes[n].ops[k]].ival = input.nodes[1].ival
                       /\ InRange(State, nodes[n].ops[k])
    /\ nodes[n].ops[1] # nodes[n].ops[2]

\* the branch is a JCC that is taken when the zero flag is set
BranchTestsZF == nodes[BranchNode].oper = "JCC" /\ nodes[BranchNode].cc = "EQ"

\* a KORTEST of PTESTM(v, v) sets the flags for the branch
KorTestOfPTestM ==
    \E k \in RangeSet(State) :
        /\ nodes[k].oper = "HWINTRINSIC" /\ nodes[k].hw = "KORTEST"
        /\ gtNext(State, k) = BranchNode
        /\ nodes[nodes[k].ops[1]].oper = "HWINTRINSIC"
        /\ nodes[nodes[k].ops[1]].hw = "PTESTM"
        /\ InRange(State, nodes[k].ops[1])
        /\ TestsLocalWithItself(nodes[k].ops[1])

-----------------------------------------------------------------------------
(* The mask of a vector comparison and the flags of KORTEST                *)

\* the elements of a vector of count elements, numbered from 0
Elements(count) == 0 .. (count - 1)

\* the bits of the mask register that KORTEST looks at: a mask of fewer
\* than 8 elements is tested as a byte whose upper bits are zero
KMaskBits(count) == IF count < 8 THEN 0 .. 7 ELSE Elements(count)

\* the mask that a comparison gives, as the set of its bits that are set,
\* when eq is the set of the elements in which the two vectors are equal
CompareMask(hw, eq, count) ==
    IF hw = "CompareEqualMask" THEN eq ELSE Elements(count) \ eq

\* KORTEST(mask, mask) sets ZF when the mask is zero and CF when all its
\* bits are set; the condition cc read from these flags
ConditionHolds(cc, mask, count) ==
    CASE cc = "EQ" -> mask = {}
      [] cc = "NE" -> mask # {}
      [] cc = "C" -> mask = KMaskBits(count)
      [] cc = "NC" -> mask # KMaskBits(count)

\* sets of equal elements to try: all of them for up to 4 elements, else
\* none, all, all but one, one, the lower byte and the lower half
ElementSamples(count) ==
    IF count <= 4 THEN SUBSET Elements(count)
    ELSE {{}, Elements(count), {0}, {count - 1}, Elements(count) \ {0},
          Elements(count) \ {count - 1}, 0 .. 7, Elements(count \div 2)}

\* op_Equality or op_Inequality of two local vectors, with a consumer, on a
\* machine with EVEX
VectorsCompared ==
    /\ input.desc.kind = "cmpop"
    /\ input.desc.op1 = "v" /\ input.desc.op2 = "v"
    /\ input.desc.use # "none"
    /\ input.cfg.avx512

CmpOpNode ==
    CHOOSE n \in DOMAIN input.nodes : input.nodes[n].hw \in {"op_Equality", "op_Inequality"}

ComparedElementCount == input.desc.size \div genTypeSize(input.desc.base)

\* the condition is true of the flags exactly when the comparison holds
ConditionDecides(cc, hw) ==
    \A eq \in ElementSamples(ComparedElementCount) :
        ConditionHolds(cc, CompareMask(hw, eq, ComparedElementCount), ComparedElementCount)
            <=> (IF input.desc.cmp = "EQ" THEN eq = Elements(ComparedElementCount)
                 ELSE eq # Elements(ComparedElementCount))

\* C11: under EVEX, op_Equality / op_Inequality of two vectors becomes a mask
\* compare of the operands followed by a KORTEST of the mask whose flags the
\* consumer reads: CompareEqualMask and CF = 1 for op_Equality on a full mask
\* (8 elements or more), CompareNotEqualMask and ZF = 0 for op_Inequality,
\* CompareNotEqualMask and ZF = 1 for op_Equality on fewer than 8 elements;
\* in every case the condition is true exactly when all elements are equal
\* (op_Equality) or at least one element differs (op_Inequality)
C11_KorTestConditionDecides ==
    (VectorsCompared /\ Lowered(CmpOpNode)) =>
        \E k \in RangeSet(State) :
            /\ nodes[k].oper = "HWINTRINSIC" /\ nodes[k].hw = "KORTEST"
            /\ nodes[k].ops = <<CmpOpNode>>
            /\ nodes[CmpOpNode].typ = "mask"
            /\ nodes[CmpOpNode].hw =
                   (IF ComparedElementCount >= 8 /\ input.desc.cmp = "EQ"
                    THEN "CompareEqualMask" ELSE "CompareNotEqualMask")
            /\ gtNext(State, k) # 0
            /\ nodes[gtNext(State, k)].cc =
                   (IF ComparedElementCount >= 8 /\ input.desc.cmp = "EQ"
                    THEN "C" ELSE input.desc.cmp)
            /\ ConditionDecides(nodes[gtNext(State, k)].cc, nodes[CmpOpNode].hw)

\* op_Equality of two vectors of 2 elements has been lowered to a KORTEST
C11_Witness ==
    /\ VectorsCompared /\ ComparedElementCount = 2 /\ input.desc.cmp = "EQ"
    /\ pass = 1 /\ cur = 0
    /\ \E k \in RangeSet(State) : nodes[k].hw = "KORTEST" /\ nodes[k].ops = <<CmpOpNode>>

-----------------------------------------------------------------------------
(* Scalar bit-manipulation peepholes                                       *)

\* the AND or XOR at the root of a scalar bit pattern
BitOpRootNode == CHOOSE n \in DOMAIN input.nodes : input.nodes[n].oper \in {"AND", "XOR"}

\* the inner operator of the pattern: NOT, NEG or ADD
BitOpInnerNode ==
    CHOOSE n \in DOMAIN input.nodes : input.nodes[n].oper \in {"NOT", "NEG", "ADD"}

\* the walk has gone past the root of the pattern
BitOpRootVisited == pass > 1 \/ cur = 0 \/ nodes[cur].oper = "RETURN"

\* AND(x, ADD(x, -1)), x a local, on a machine with BMI1
ResetLowestSetBitPattern ==
    /\ input.desc.kind = "bitop" /\ input.desc.pat = "blsr"
    /\ input.desc.side = 2 /\ input.desc.other = "same"
    /\ input.cfg.avx2

\* the range holds a single intrinsic, ResetLowestSetBit of a read of x,
\* and no AND, no ADD and no constant
SingleResetLowestSetBit ==
    /\ \E k \in RangeSet(State) :
           /\ nodes[k].oper = "HWINTRINSIC"
           /\ nodes[k].hw = (IF input.desc.typ = "long" THEN "X64_ResetLowestSetBit"
                             ELSE "ResetLowestSetBit")
           /\ Len(nodes[k].ops) = 1
           /\ nodes[nodes[k].ops[1]].oper = "LCL_VAR" /\ nodes[nodes[k].ops[1]].ival = 1
           /\ InRange(State, nodes[k].ops[1])
           /\ \A j \in RangeSet(State) : nodes[j].oper = "HWINTRINSIC" => j = k
    /\ \A j \in RangeSet(State) : nodes[j].oper \notin {"AND", "ADD", "CNS_INT"}

\* C12 as stated: with BMI1 available and x a local, AND(x, ADD(x, -1)) is
\* lowered to a single ResetLowestSetBit(x) node, and the AND, the ADD and
\* the -1 constant are removed from the block range
C12_AsStated == (ResetLowestSetBitPattern /\ BitOpRootVisited) => SingleResetLowestSetBit

\* what the rewrite asks for beside the pattern and the instruction set
ResetLowestSetBitApplies ==
    /\ input.cfg.opts
    /\ input.cfg.exposed # 1
    /\ input.desc.use
    /\ input.desc.flags = "none"

\* C12: with BMI1 available, optimization on, x a local whose address is not
\* exposed, the value of the AND used and no flags of the AND or the ADD
\* read by a later node, AND(x, ADD(x, -1)) is lowered to a single
\* ResetLowestSetBit(x) node that the user of the AND reads, and the AND,
\* the ADD, its read of x and the -1 constant are removed from the block
\* range; when one of these conditions fails the AND stays as it is
C12_AndWithDecrementIsResetLowestSetBit ==
    (ResetLowestSetBitPattern /\ BitOpRootVisited) =>
        IF ResetLowestSetBitApplies
        THEN /\ SingleResetLowestSetBit
             /\ Len(range) = 3
             /\ nodes[range[3]].oper = "RETURN" /\ nodes[range[3]].ops = <<range[2]>>
             /\ nodes[range[2]].oper = "HWINTRINSIC"
        ELSE /\ range = input.range
             /\ nodes[BitOpRootNode].ops = input.nodes[BitOpRootNode].ops
             /\ nodes[BitOpRootNode].oper = "AND"

\* the pattern has been rewritten
C12_Witness ==
    /\ ResetLowestSetBitPattern /\ ResetLowestSetBitApplies
    /\ input.desc.typ = "int"
    /\ pass = 1 /\ cur = 0
    /\ SingleResetLowestSetBit


-----------------------------------------------------------------------------
(* Integer multiply by a constant                                          *)

\* the multiply of the block
MulNode == CHOOSE n \in DOMAIN input.nodes : input.nodes[n].oper = "MUL"

\* the walk has gone past the multiply for the first time
MulVisited == pass = 1 /\ (cur = 0 \/ nodes[cur].oper = "RETURN")

\* MUL(x, c), optimization on and no overflow check
MulByConstant ==
    /\ input.desc.kind = "mul"
    /\ input.cfg.opts /\ ~input.desc.ovf

\* the node is still the multiply of its two operands by c
UnchangedMul ==
    /\ nodes[MulNode].oper = "MUL"
    /\ nodes[MulNode].ops = input.nodes[MulNode].ops
    /\ nodes[nodes[MulNode].ops[2]].oper = "CNS_INT"
    /\ nodes[nodes[MulNode].ops[2]].ival = input.desc.c
    /\ \A k \in RangeSet(State) : nodes[k].oper \notin {"LSH", "SUB"}

\* the node is SHL(x, n), x its first operand as before
IsShiftBy(node, x, n) ==
    /\ nodes[node].oper = "LSH"
    /\ nodes[node].ops[1] = x
    /\ nodes[nodes[node].ops[2]].oper = "CNS_INT"
    /\ nodes[nodes[node].ops[2]].ival = n

\* the node is oper(SHL(x, n), x): both reads of x are reads of one local,
\* which is x itself if x was a local and else a local that x was stored to
IsShiftAndOper(node, oper, n) ==
    LET shift == nodes[node].ops[1]
        again == nodes[node].ops[2]
        x == nodes[shift].ops[1]
        was == input.nodes[MulNode].ops[1]
    IN  /\ nodes[node].oper = oper
        /\ nodes[x].oper = "LCL_VAR"
        /\ IsShiftBy(shift, x, n)
        /\ nodes[again].oper = "LCL_VAR" /\ nodes[again].ival = nodes[x].ival
        /\ again # x
        /\ {shift, again, x, nodes[shift].ops[2]} \subseteq RangeSet(State)
        /\ IF input.nodes[was].oper = "LCL_VAR" THEN x = was
           ELSE \E st \in RangeSet(State) :
                    /\ nodes[st].oper = "STORE_LCL_VAR"
                    /\ nodes[st].ops = <<was>>
                    /\ nodes[st].ival = nodes[x].ival

\* the shape that the claim gives to a multiply by c
MulLoweredFor(c) ==
    IF c \in {3, 5, 9} THEN UnchangedMul
    ELSE IF \E n \in 0..6 : c = 2 ^ n
    THEN IsShiftBy(MulNode, input.nodes[MulNode].ops[1], CHOOSE n \in 0..6 : c = 2 ^ n)
    ELSE IF \E n \in 0..6 : c = 2 ^ n + 1
    THEN IsShiftAndOper(MulNode, "ADD", CHOOSE n \in 0..6 : c = 2 ^ n + 1)
    ELSE IF \E n \in 0..6 : c = 2 ^ n - 1
    THEN IsShiftAndOper(MulNode, "SUB", CHOOSE n \in 0..6 : c = 2 ^ n - 1)
    ELSE UnchangedMul

\* C13 as stated: with optimization on and no overflow check, MUL(x, c) is
\* left a MUL when c is 3, 5 or 9 and otherwise becomes SHL(x, n) when
\* c = 2^n, ADD(SHL(x, n), x) when c = 2^n + 1 and SUB(SHL(x, n), x) when
\* c = 2^n - 1
C13_AsStated == (MulByConstant /\ MulVisited) => MulLoweredFor(input.desc.c)

\* C13: with optimization on and no overflow check, MUL(x, c) with a
\* constant c is left a MUL when c is 3, 5 or 9, and otherwise becomes
\* SHL(x, n) when c = 2^n and, on a 64-bit target only, ADD(SHL(x, n), x)
\* when c = 2^n + 1 and SUB(SHL(x, n), x) when c = 2^n - 1; on a 32-bit
\* target a multiply by a constant that is no power of two is left a MUL
C13_MulByConstantRewrittenByValue ==
    (MulByConstant /\ MulVisited) =>
        IF input.cfg.x86 /\ ~isPow2(input.desc.c) THEN UnchangedMul
        ELSE MulLoweredFor(input.desc.c)

\* a multiply of a loaded value by 17 has become ADD(SHL(t, 4), t)
C13_Witness ==
    /\ MulByConstant /\ MulVisited /\ cur = 0
    /\ input.desc.c = 17 /\ input.desc.x = "ind" /\ ~input.cfg.x86
    /\ IsShiftAndOper(MulNode, "ADD", 4)


-----------------------------------------------------------------------------
(* Saturating cast of a floating value to uint                             *)

\* the cast of the block and its operand before lowering
CastNode == CHOOSE n \in DOMAIN input.nodes : input.nodes[n].oper = "CAST"

CastOpBefore == input.nodes[CastNode].ops[1]

\* the walk has gone past the cast for the first time
CastVisited == pass = 1 /\ (cur = 0 \/ nodes[cur].oper = "RETURN")

\* CAST<uint>(f), f a float, without AVX10v2
CastFloatToUInt ==
    /\ input.desc.kind = "cast" /\ input.desc.dst = "uint" /\ input.desc.src = "float"
    /\ ~input.cfg.avx10v2

\* the nodes of the range that come before the cast
BeforeCast == {n \in RangeSet(State) : Pos(State, n) < Pos(State, CastNode)}

\* the truncating conversions put before the cast
TruncatingConverts ==
    {n \in BeforeCast : nodes[n].hw \in {"ConvertToIntegerWithTruncation",
                                        "ConvertToVector128Int32WithTruncation"}}

\* the node whose value n reads: the operand of the store to its local if
\* n is a read of a local stored to before the cast, else n itself
DefOf(n) ==
    IF /\ nodes[n].oper = "LCL_VAR"
       /\ \E st \in BeforeCast : nodes[st].oper = "STORE_LCL_VAR" /\ nodes[st].ival = nodes[n].ival
    THEN nodes[CHOOSE st \in BeforeCast :
                   nodes[st].oper = "STORE_LCL_VAR" /\ nodes[st].ival = nodes[n].ival].ops[1]
    ELSE n

\* fix is MaxScalar of CreateScalarUnsafe(f) and zero, before the cast
HasFixedUpSource(fix) ==
    /\ fix \in BeforeCast /\ nodes[fix].hw = "MaxScalar"
    /\ \E k \in 1..2 :
           LET src == DefOf(nodes[fix].ops[k])
               zero == nodes[fix].ops[3 - k]
           IN  /\ src \in BeforeCast
               /\ nodes[src].hw = "CreateScalarUnsafe" /\ nodes[src].ops = <<CastOpBefore>>
               /\ nodes[zero].oper = "CNS_VEC" /\ nodes[zero].ival = 0

\* the shift of the OR(AND(negated, result >> 31), result) that sel is, or 0
SignMaskOf(sel) ==
    IF \E a \in 1..2, k \in 1..2 :
           /\ nodes[nodes[sel].ops[a]].hw = "AND"
           /\ nodes[nodes[nodes[sel].ops[a]].ops[k]].hw = "ShiftRightArithmetic"
    THEN LET a == CHOOSE a \in 1..2 : nodes[nodes[sel].ops[a]].hw = "AND"
             and == nodes[sel].ops[a]
             k == CHOOSE k \in 1..2 : nodes[nodes[and].ops[k]].hw = "ShiftRightArithmetic"
         IN  [sra |-> nodes[and].ops[k], negated |-> nodes[and].ops[3 - k],
              result |-> nodes[sel].ops[3 - a]]
    ELSE [sra |-> 0, negated |-> 0, result |-> 0]

\* the conversions that sel blends: negated is taken where result has its
\* sign bit set, by BlendVariable(result, negated, result) or by
\* OR(AND(negated, result >> 31), result); 0 and 0 if sel is no such blend
BlendedBy(sel) ==
    IF /\ nodes[sel].hw = "SSE42_BlendVariable"
       /\ DefOf(nodes[sel].ops[3]) = DefOf(nodes[sel].ops[1])
    THEN [result |-> DefOf(nodes[sel].ops[1]), negated |-> nodes[sel].ops[2]]
    ELSE IF /\ nodes[sel].hw = "OR"
            /\ SignMaskOf(sel).sra # 0
            /\ nodes[nodes[SignMaskOf(sel).sra].ops[2]].ival = 31
            /\ DefOf(nodes[SignMaskOf(sel).sra].ops[1]) = DefOf(SignMaskOf(sel).result)
    THEN [result |-> DefOf(SignMaskOf(sel).result), negated |-> SignMaskOf(sel).negated]
    ELSE [result |-> 0, negated |-> 0]

\* the cast reads a SELECT before it that gives the largest uint when the
\* source is not below 2^32
IsSaturation(select) ==
    /\ select \in BeforeCast /\ nodes[select].oper = "SELECT"
    /\ nodes[nodes[select].ops[1]].hw = "CompareScalarUnorderedGreaterThanOrEqual"
    /\ nodes[nodes[select].ops[2]] = MaxIntegralValue("uint")

\* the sub-graph of the claim: two conversions, of the fixed-up value and of
\* the wrapped one, blended by the sign bit, and the saturation of the
\* scalar taken out of the blend
TwoConvertsBlendedAndSaturated ==
    LET select == nodes[CastNode].ops[1]
        scalar == nodes[select].ops[3]
        sel == nodes[scalar].ops[1]
        result == BlendedBy(sel).result
        negated == BlendedBy(sel).negated
    IN  /\ IsSaturation(select)
        /\ nodes[scalar].hw = "ToScalar"
        /\ result # 0
        /\ TruncatingConverts = {result, negated} /\ result # negated
        /\ HasFixedUpSource(nodes[result].ops[1])
        /\ nodes[nodes[negated].ops[1]].hw = "SubtractScalar"

\* one conversion to a 64-bit integer, saturated
OneConvertSaturated ==
    LET select == nodes[CastNode].ops[1]
        result == nodes[select].ops[3]
    IN  /\ IsSaturation(select)
        /\ TruncatingConverts = {result}
        /\ nodes[result].typ = "long"
        /\ HasFixedUpSource(nodes[result].ops[1])
        /\ \A n \in BeforeCast : nodes[n].hw \notin {"SSE42_BlendVariable", "SubtractScalar"}

\* the cast itself converts the fixed-up source
CastOfFixedUpSource ==
    LET scalar == nodes[CastNode].ops[1]
    IN  /\ scalar \in BeforeCast /\ nodes[scalar].hw = "ToScalar"
        /\ HasFixedUpSource(nodes[scalar].ops[1])
        /\ TruncatingConverts = {}
        /\ \A n \in BeforeCast : nodes[n].oper # "SELECT"

\* C14 as stated: without AVX10v2 the cast of a float to uint gets the
\* sub-graph with two truncating conversions and a sign-bit blend
C14_AsStated == (CastFloatToUInt /\ CastVisited) => TwoConvertsBlendedAndSaturated

\* C14: without AVX10v2, CAST<uint>(f) with f a float gets before it, on a
\* 32-bit target without EVEX, CreateScalarUnsafe(f), the max-with-zero
\* fix-up, two truncating conversions blended by the sign bit of the first
\* and the compare-and-select against the largest uint, which the cast then
\* reads; on a 64-bit target without EVEX a single conversion to a 64-bit
\* integer takes the place of the two and of the blend; with EVEX only the
\* fix-up is put before the cast, which reads it and still converts
C14_UIntCastSaturatesByTarget ==
    (CastFloatToUInt /\ CastVisited) =>
        (CASE input.cfg.avx512 -> CastOfFixedUpSource
           [] ~input.cfg.avx512 /\ input.cfg.x86 -> TwoConvertsBlendedAndSaturated
           [] OTHER -> OneConvertSaturated)

\* the two conversions and the blend have been put before a cast
C14_Witness ==
    /\ CastFloatToUInt /\ CastVisited /\ cur = 0
    /\ input.cfg.x86 /\ ~input.cfg.avx512 /\ input.cfg.sse42
    /\ TwoConvertsBlendedAndSaturated
    /\ \E n \in BeforeCast : nodes[n].hw = "SSE42_BlendVariable"


-----------------------------------------------------------------------------
(* Normalisation of a TernaryLogic that ignores an operand                 *)

\* the TernaryLogic node of the block, and the block as it was given
TernaryNode == CHOOSE n \in DOMAIN input.nodes : input.nodes[n].hw = "TernaryLogic"

InputState == [nodes |-> input.nodes, range |-> input.range, cfg |-> input.cfg]

\* a TernaryLogic with a constant control byte that is no select and
\* depends on exactly two of its three operands
IgnoresOneOperand ==
    /\ input.desc.kind = "ternlog" /\ input.desc.cond = "v"
    /\ Cardinality(GetAllUseFlags(input.desc.control)) = 2
    /\ \A r \in SelectControls : r.control # input.desc.control

\* the operand of the given node that the control byte does not depend on
IgnoredOperand ==
    input.nodes[TernaryNode].ops[
        CASE "A" \notin GetAllUseFlags(input.desc.control) -> 1
          [] "B" \notin GetAllUseFlags(input.desc.control) -> 2
          [] OTHER -> 3]

\* the block with the operands of the node normalised, as the handler has
\* it before it goes on to the unused operands and the containment
Normalized == NormalizeTernaryOperands(InputState, TernaryNode, GetAllUseFlags(input.desc.control))

\* the handler is about to lower the node, or has lowered it
TernaryNodeReached == pass = 1 /\ cur = TernaryNode

TernaryNodeVisited == pass = 1 /\ (cur = 0 \/ nodes[cur].oper = "RETURN")

\* C15: when a TernaryLogic with a constant control byte ignores one of its
\* operands, the normalisation puts that operand in slot A and permutes the
\* control byte so that the node is the same function of its original
\* operands as before; the lowered node is that function still, its slot A
\* not read
C15_NormalizationKeepsFunction ==
    /\ (IgnoresOneOperand /\ TernaryNodeReached) =>
           /\ Normalized.nodes[TernaryNode].ops[1] = IgnoredOperand
           /\ GetAllUseFlags(Normalized.nodes[Normalized.nodes[TernaryNode].ops[4]].ival) = {"B", "C"}
           /\ Eval(Normalized, TernaryNode) = Eval(InputState, TernaryNode)
    /\ (IgnoresOneOperand /\ TernaryNodeVisited) =>
           /\ nodes[TernaryNode].hw = "TernaryLogic"
           /\ Eval(State, TernaryNode) = Eval(InputState, TernaryNode)
           /\ GetAllUseFlags(nodes[nodes[TernaryNode].ops[4]].ival) = {"B", "C"}
           /\ {nodes[TernaryNode].ops[2], nodes[TernaryNode].ops[3]}
                  = {input.nodes[TernaryNode].ops[k] : k \in 1..3} \ {IgnoredOperand}

\* A AND B has become B AND C of the operands (zero, one of the two, the other)
C15_Witness ==
    /\ IgnoresOneOperand /\ TernaryNodeVisited /\ cur = 0
    /\ input.desc.control = 192
    /\ IgnoredOperand = 3
    /\ Normalized.nodes[TernaryNode].ops = <<3, 1, 2, 4>>
    /\ nodes[nodes[TernaryNode].ops[4]].ival = 136
    /\ nodes[3].unused


-----------------------------------------------------------------------------
(* ConditionalSelect whose condition is no mask, with EVEX                 *)

\* the ConditionalSelect of the block
CndSelNode == CHOOSE n \in DOMAIN input.nodes : input.nodes[n].hw = "ConditionalSelect"

\* the walk has gone past the ConditionalSelect for the first time
CndSelVisited == pass = 1 /\ (cur = 0 \/ nodes[cur].oper = "RETURN")

\* ConditionalSelect(cond, a, b), cond a vector that is no per-element mask,
\* on a machine with EVEX
CndSelOfVectorWithEvex ==
    /\ input.desc.kind = "cndsel" /\ input.desc.op1 = "v"
    /\ input.cfg.avx512

\* the handler is about to lower the ConditionalSelect
CndSelReached == pass = 1 /\ cur = CndSelNode

\* in the block t the node is TernaryLogic(cond, a, b, 0xCA)
IsTernaryLogic0xCA(t) ==
    /\ t.nodes[CndSelNode].hw = "TernaryLogic"
    /\ SubSeq(t.nodes[CndSelNode].ops, 1, 3) = input.nodes[CndSelNode].ops
    /\ t.nodes[t.nodes[CndSelNode].ops[4]].oper = "CNS_INT"
    /\ t.nodes[t.nodes[CndSelNode].ops[4]].ival = 202

\* the node is a TernaryLogic of cond, a and b in some order
IsTernaryLogicOfOperands ==
    /\ nodes[CndSelNode].hw = "TernaryLogic"
    /\ {nodes[CndSelNode].ops[k] : k \in 1..3} = {input.nodes[CndSelNode].ops[k] : k \in 1..3}
    /\ nodes[nodes[CndSelNode].ops[4]].oper = "CNS_INT"

\* C16 as stated: the node is TernaryLogic with the control byte 0xCA, and
\* 0xCA is the truth table of (b AND c) OR (a AND NOT c), whether a, b, c
\* name the operand slots A, B, C or the values a, b of the select and its
\* condition c
C16_AsStated ==
    (CndSelOfVectorWithEvex /\ CndSelVisited) =>
        /\ IsTernaryLogic0xCA(State)
        /\ \/ 202 = ByteOr(ByteAnd(B, C), ByteAnd(A, ByteNot(C)))
           \/ 202 = ByteOr(ByteAnd(C, A), ByteAnd(B, ByteNot(A)))

\* C16: with EVEX and a condition that is no mask, ConditionalSelect(cond,
\* a, b) is made TernaryLogic(cond, a, b, 0xCA), 0xCA being the truth table
\* of (B AND A) OR (C AND NOT A), that is of (cond AND a) OR (NOT cond AND
\* b); the lowered node is a TernaryLogic of cond, a and b in the order the
\* containment check leaves them in, with the control byte permuted to
\* match, so that it is the same function of cond, a and b as the select
C16_CndSelIsTernaryLogic0xCA ==
    /\ 202 = ByteOr(ByteAnd(B, A), ByteAnd(C, ByteNot(A)))
    /\ (CndSelOfVectorWithEvex /\ CndSelReached) =>
           IsTernaryLogic0xCA(CndSelToTernaryLogic(State, CndSelNode))
    /\ (CndSelOfVectorWithEvex /\ CndSelVisited) =>
           /\ IsTernaryLogicOfOperands
           /\ Eval(State, CndSelNode) = Eval(InputState, CndSelNode)
           /\ SubSeq(nodes[CndSelNode].ops, 1, 3) = input.nodes[CndSelNode].ops =>
                  nodes[nodes[CndSelNode].ops[4]].ival = 202

\* a select of two locals by a third has become a TernaryLogic of the three
\* that is the function 0xCA of (cond, a, b)
C16_Witness ==
    /\ CndSelOfVectorWithEvex /\ CndSelVisited /\ cur = 0
    /\ input.desc.op2 = "v" /\ input.desc.op3 = "v" /\ input.desc.size = 32
    /\ IsTernaryLogicOfOperands
    /\ Eval(State, CndSelNode) = 202


-----------------------------------------------------------------------------
(* The value of a lowered ConditionalSelect, element by element            *)

\* A vector is one element of two bits (0..3, the upper bit its sign), a
\* mask one bit.  env gives the values of the locals 1, 2, 3; a local of
\* mask type holds the low bit of its value
Envs == [1..3 -> 0..3]

AllOnesIf(b) == IF b THEN 3 ELSE 0

BitIf(b) == IF b THEN 1 ELSE 0

BlendVariableIds == {"SSE42_BlendVariable", "AVX_BlendVariable", "AVX2_BlendVariable"}

\* the store to the temporary lcl
StoreTo(s, lcl) ==
    CHOOSE st \in DOMAIN s.nodes : s.nodes[st].oper = "STORE_LCL_VAR" /\ s.nodes[st].ival = lcl

RECURSIVE EvalAt(_, _, _)

\* the value of node n in the block s under env, a temporary having the
\* value stored to it, or -1 for a node that is no value of these kinds
EvalAt(s, n, env) ==
    LET nd == s.nodes[n]
        e(k) == EvalAt(s, nd.ops[k], env)
    IN  CASE nd.oper = "LCL_VAR" /\ nd.ival \in 1..3 ->
               IF nd.typ = "mask" THEN env[nd.ival] % 2 ELSE env[nd.ival]
          [] nd.oper = "LCL_VAR" /\ nd.ival \notin 1..3 ->
               EvalAt(s, s.nodes[StoreTo(s, nd.ival)].ops[1], env)
          [] nd.oper = "CNS_VEC" -> AllOnesIf(nd.ival = 255)
          [] nd.oper = "RETURN" -> e(1)
          [] nd.oper = "HWINTRINSIC" /\ nd.hw \in BitwiseOpers -> GetTernaryControlByte(nd.hw, e(1), e(2)) % 4
          [] nd.oper = "HWINTRINSIC" /\ nd.hw = "TernaryLogic" ->
               TernaryLogic(s.nodes[nd.ops[4]].ival, e(1), e(2), e(3)) % 4
          [] nd.oper = "HWINTRINSIC" /\ nd.hw = "ConditionalSelect" ->
               ByteOr(ByteAnd(e(1), e(2)), ByteAnd(ByteNot(e(1)), e(3))) % 4
          [] nd.oper = "HWINTRINSIC" /\ nd.hw = "CompareEqual" -> AllOnesIf(e(1) = e(2))
          [] nd.oper = "HWINTRINSIC" /\ nd.hw = "CompareEqualMask" -> BitIf(e(1) = e(2))
          [] nd.oper = "HWINTRINSIC" /\ nd.hw = "ConvertMaskToVector" -> AllOnesIf(e(1) = 1)
          [] nd.oper = "HWINTRINSIC" /\ nd.hw = "ConvertVectorToMask" -> e(1) \div 2
          [] nd.oper = "HWINTRINSIC" /\ nd.hw \in BlendVariableIds ->
               IF e(3) \div 2 = 1 THEN e(2) ELSE e(1)
          [] nd.oper = "HWINTRINSIC" /\ nd.hw = "BlendVariableMask" ->
               IF e(3) = 1 THEN e(2) ELSE e(1)
          [] OTHER -> -1

\* the node that has the value of the block: the operand of the RETURN, or
\* the last node of a block without one
CndSelResult ==
    IF input.desc.use THEN nodes[CHOOSE r \in RangeSet(State) : nodes[r].oper = "RETURN"].ops[1]
    ELSE range[Len(range)]

\* the forms that the lowering gives to a ConditionalSelect
CndSelForms == BlendVariableIds \cup {"BlendVariableMask", "AND", "AND_NOT", "TernaryLogic", "OR"}

\* C17: every lowering of ConditionalSelect(cond, a, b) computes, bit for
\* bit, (cond AND a) OR (NOT cond AND b): the node that takes its place is
\* a blend by the mask, an AND or an AND_NOT with the condition, a
\* TernaryLogic or the OR of the two, and under every value of the locals
\* it has the value that the select had
C17_EveryLoweringSelects ==
    (input.desc.kind = "cndsel" /\ CndSelVisited) =>
        /\ nodes[CndSelResult].hw \in CndSelForms
        /\ \A env \in Envs :
               EvalAt(State, CndSelResult, env) = EvalAt(InputState, CndSelNode, env)

\* a select by a comparison whose first value is zero has become an AND_NOT
C17_Witness ==
    /\ input.desc.kind = "cndsel" /\ CndSelVisited /\ cur = 0
    /\ input.desc.op1 = "cmp" /\ input.desc.op2 = "zero" /\ input.desc.size = 16
    /\ nodes[CndSelResult].hw = "AND_NOT"
    /\ nodes[nodes[CndSelResult].ops[2]].oper = "LCL_VAR"
    /\ nodes[nodes[CndSelResult].ops[2]].ival = 3


-----------------------------------------------------------------------------
(* The mask form of the condition of a select-pattern TernaryLogic         *)

\* the comparison that is the condition of the TernaryLogic of the block
ConditionNode == CHOOSE n \in DOMAIN input.nodes : input.nodes[n].hw \in VectorCompares

\* a select-pattern TernaryLogic whose condition is a vector comparison
SelectByVectorCompare == input.desc.kind = "ternlog" /\ input.desc.cond # "v"

\* the predicate that a vector comparison and that a mask comparison tests
PredicateOfVectorCompare(hw) ==
    CASE hw = "CompareEqual" -> "EQ"
      [] hw = "CompareGreaterThan" -> "GT"
      [] hw = "CompareGreaterThanOrEqual" -> "GE"
      [] hw = "CompareLessThan" -> "LT"
      [] hw = "CompareLessThanOrEqual" -> "LE"
      [] hw = "CompareNotEqual" -> "NEQ"
      [] hw = "CompareNotGreaterThan" -> "NGT"
      [] hw = "CompareNotGreaterThanOrEqual" -> "NGE"
      [] hw = "CompareNotLessThan" -> "NLT"
      [] hw = "CompareNotLessThanOrEqual" -> "NLE"
      [] hw = "CompareOrdered" -> "ORD"
      [] hw = "CompareUnordered" -> "UNORD"
      [] OTHER -> "none"

PredicateOfMaskCompare(hw) ==
    CASE hw = "CompareEqualMask" -> "EQ"
      [] hw = "CompareGreaterThanMask" -> "GT"
      [] hw = "CompareGreaterThanOrEqualMask" -> "GE"
      [] hw = "CompareLessThanMask" -> "LT"
      [] hw = "CompareLessThanOrEqualMask" -> "LE"
      [] hw = "CompareNotEqualMask" -> "NEQ"
      [] hw = "CompareNotGreaterThanMask" -> "NGT"
      [] hw = "CompareNotGreaterThanOrEqualMask" -> "NGE"
      [] hw = "CompareNotLessThanMask" -> "NLT"
      [] hw = "CompareNotLessThanOrEqualMask" -> "NLE"
      [] hw = "CompareOrderedMask" -> "ORD"
      [] hw = "CompareUnorderedMask" -> "UNORD"
      [] OTHER -> "none"

\* floating values to compare: two numbers and a NaN (-1)
FloatSamples == {-1, 1, 2}

Ordered(x, y) == x # -1 /\ y # -1

\* the predicate holds of x and y; the negated forms hold of a NaN
PredicateHolds(p, x, y) ==
    CASE p = "EQ" -> Ordered(x, y) /\ x = y
      [] p = "GT" -> Ordered(x, y) /\ x > y
      [] p = "GE" -> Ordered(x, y) /\ x >= y
      [] p = "LT" -> Ordered(x, y) /\ x < y
      [] p = "LE" -> Ordered(x, y) /\ x <= y
      [] p = "NEQ" -> ~(Ordered(x, y) /\ x = y)
      [] p = "NGT" -> ~(Ordered(x, y) /\ x > y)
      [] p = "NGE" -> ~(Ordered(x, y) /\ x >= y)
      [] p = "NLT" -> ~(Ordered(x, y) /\ x < y)
      [] p = "NLE" -> ~(Ordered(x, y) /\ x <= y)
      [] p = "ORD" -> Ordered(x, y)
      [] p = "UNORD" -> ~Ordered(x, y)
      [] OTHER -> FALSE

\* the condition has been made a mask comparison
ConditionReshaped == TernaryNodeVisited /\ nodes[ConditionNode].typ = "mask"

\* C18: when the vector comparison that is the condition of a
\* select-pattern TernaryLogic is made a mask comparison, the mask
\* comparison holds of the same pairs of values as the vector comparison
C18_MaskCompareTestsSamePredicate ==
    (SelectByVectorCompare /\ ConditionReshaped) =>
        \A x, y \in FloatSamples :
            PredicateHolds(PredicateOfMaskCompare(nodes[ConditionNode].hw), x, y)
                = PredicateHolds(PredicateOfVectorCompare(input.nodes[ConditionNode].hw), x, y)


-----------------------------------------------------------------------------
(* A partial mask of a comparison with a mode, compared with AllBitsSet    *)

\* op_Equality / op_Inequality (ConvertMaskToVector(Compare(x, y, mode)),
\* AllBitsSet) on fewer than 8 elements, the mode having an inverse
PartialMaskOfCompareWithMode ==
    /\ input.desc.kind = "cmpop"
    /\ input.desc.op1 = "cvtmode" /\ input.desc.op2 = "ones"
    /\ ComparedElementCount < 8
    /\ InverseFloatComparisonMode(input.desc.mode) # input.desc.mode

\* the comparison that makes the mask, and its mode constant
ModeCompareNode == CHOOSE n \in DOMAIN input.nodes : input.nodes[n].hw = "Compare"

ModeConstant == input.nodes[ModeCompareNode].ops[3]

\* a KORTEST of the mask that the comparison makes is in the range
KorTestOfModeCompare ==
    \E k \in RangeSet(State) : nodes[k].hw = "KORTEST" /\ nodes[k].ops = <<ModeCompareNode>>

\* C19: when the comparison with AllBitsSet of a partial mask (fewer than 8
\* elements) made by a Compare intrinsic with a constant mode that has a
\* listed inverse has been lowered, the mode constant of that Compare holds
\* the inverse mode
C19_ModeConstantIsInverted ==
    (PartialMaskOfCompareWithMode /\ KorTestOfModeCompare) =>
        nodes[ModeConstant].ival = InverseFloatComparisonMode(input.desc.mode)


-----------------------------------------------------------------------------
(* The flags of the nodes that a scalar bit peephole replaces              *)

\* the nodes of the matched pattern: the root, the inner operator and the
\* constant of the ADD
BitOpPatternNodes ==
    {n \in DOMAIN input.nodes : input.nodes[n].oper \in {"AND", "XOR", "NOT", "NEG", "ADD", "CNS_INT"}}

\* a peephole has put a scalar intrinsic in the place of the root
BitOpRewritten ==
    /\ input.desc.kind = "bitop"
    /\ ~InRange(State, BitOpRootNode)
    /\ \E k \in RangeSet(State) :
           nodes[k].oper = "HWINTRINSIC"
           /\ nodes[k].hw \in ScalarUnaryIntrinsics \cup {"AndNot", "X64_AndNot"}

\* C20: each of the peepholes ANDN, BLSR, BLSI and BLSMSK rewrites only when
\* no node of the matched pattern, the root included, is marked as setting
\* flags
C20_RewrittenPatternSetsNoFlags ==
    BitOpRewritten => \A n \in BitOpPatternNodes : ~input.nodes[n].setFlags


-----------------------------------------------------------------------------
(* The local that BLSR, BLSI and BLSMSK read once instead of twice         *)

\* the intrinsics that ResetLowestSetBit, ExtractLowestSetBit and
\* GetMaskUpToLowestSetBit put in the place of a pattern, in the range
SingleReadIntrinsics ==
    {k \in RangeSet(State) : nodes[k].oper = "HWINTRINSIC" /\ nodes[k].hw \in ScalarUnaryIntrinsics}

\* C21: the BLSR, BLSI and BLSMSK peepholes, which replace two reads of the
\* same local by one, are applied only when that local is not
\* address-exposed
C21_SingleReadLocalIsNotExposed ==
    input.desc.kind = "bitop" =>
        \A k \in SingleReadIntrinsics : ~IsAddressExposed(State, nodes[k].ops[1])


-----------------------------------------------------------------------------
(* The node that a handler returns as the next one to lower                *)

\* C22: the node that a per-node lowering routine returns as the next node
\* to visit (cur, after the step) is linked in the block range: it is never
\* a node that the routine removed
C22_NextNodeIsLinked == cur # 0 => InRange(State, cur)

\* NOT(NOT(x)) with a consumer, the outer constant and the outer XOR right
\* after the inner XOR: the inner XOR has been lowered, the three nodes are
\* gone and the walk stands at the consumer
C22_Witness ==
    /\ IsDoubleNot /\ input.desc.side = 1 /\ input.desc.use
    /\ pass = 1
    /\ ~InRange(State, 3) /\ ~InRange(State, 4) /\ ~InRange(State, 5)
    /\ cur = 6

-----------------------------------------------------------------------------
(* C23: shifts of small types are not read-modify-write                    *)

\* st stores, in a type smaller than 32 bits, a shift or rotate of a load
\* from its own destination
IsSmallShiftOfDestination(st) ==
    /\ varTypeIsSmall(nodes[st].typ)
    /\ OperIsShiftOrRotate(ValueOf(st).oper)
    /\ LoadsDestination(ValueOf(st).ops[1], st)

\* the destination address is one of the forms the detection supports
HasSupportedDestination(st) == nodes[nodes[st].ops[1]].oper \in {"LEA", "LCL_VAR", "CNS_INT"}

\* C23 as stated: a lowered store of a small type whose value is a shift or
\* rotate of a load from its own destination has the status "unsupported
\* type" and is a plain store
C23_AsStated ==
    \A st \in Stores :
        Lowered(st) /\ IsSmallShiftOfDestination(st) =>
            /\ nodes[st].rmw = "RMW_UNSUPPORTED_TYPE"
            /\ ~ValueOf(st).contained

\* C23: a lowered store of a small type whose value is a shift or rotate of
\* a load from its own destination is never marked read-modify-write and its
\* value is not contained; its status is "unsupported type" when the
\* destination address is an address mode, a local or a constant, and
\* "unsupported address" otherwise
C23_SmallShiftIsPlainStore ==
    \A st \in Stores :
        Lowered(st) /\ IsSmallShiftOfDestination(st) =>
            /\ nodes[st].rmw =
                   IF HasSupportedDestination(st) THEN "RMW_UNSUPPORTED_TYPE" ELSE "RMW_UNSUPPORTED_ADDR"
            /\ ~IsRMWMemoryOp(State, st)
            /\ ~ValueOf(st).contained

\* a byte store of LSH(IND(p), r) to the local address p has been lowered
C23_Witness ==
    \E st \in Stores :
        /\ Lowered(st)
        /\ IsSmallShiftOfDestination(st)
        /\ nodes[nodes[st].ops[1]].oper = "LCL_VAR"
        /\ nodes[st].rmw = "RMW_UNSUPPORTED_TYPE"

-----------------------------------------------------------------------------
(* C24: the truncation of the source of an emulated conversion to uint     *)

\* CAST<uint>(f) where the unsigned conversion is emulated by two signed
\* ones: the 32-bit target without EVEX
CastToUIntIsEmulated ==
    /\ input.desc.kind = "cast" /\ input.desc.dst = "uint"
    /\ input.cfg.x86 /\ ~input.cfg.avx512 /\ ~input.cfg.avx10v2

\* the value wrapped to negative
WrapVal == CHOOSE n \in BeforeCast : nodes[n].hw = "SubtractScalar"

\* n reads the source of the cast as it was put in a vector
ReadsCastSource(n) ==
    /\ nodes[DefOf(n)].hw = "CreateScalarUnsafe"
    /\ nodes[DefOf(n)].ops = <<CastOpBefore>>

\* n is the source truncated toward zero: RoundToZeroScalar(src), or
\* (src >>> 21) << 21 on 64-bit elements
TruncatesCastSource(n) ==
    \/ /\ nodes[n].hw = "RoundToZeroScalar"
       /\ ReadsCastSource(nodes[n].ops[1])
    \/ /\ nodes[n].hw = "ShiftLeftLogical" /\ nodes[n].base = "ulong"
       /\ nodes[nodes[n].ops[2]].ival = 21
       /\ nodes[nodes[n].ops[1]].hw = "ShiftRightLogical"
       /\ nodes[nodes[n].ops[1]].base = "ulong"
       /\ nodes[nodes[nodes[n].ops[1]].ops[2]].ival = 21
       /\ ReadsCastSource(nodes[nodes[n].ops[1]].ops[1])

\* the wrapped value is the subtraction of 2^32 from the value floor
WrapsFloorOf(wrap, floor) ==
    /\ nodes[wrap].ops[1] = floor
    /\ nodes[DefOf(nodes[wrap].ops[2])] = MaxFloatingValue

\* C24 as stated: in the emulated conversion to uint the wrapped value is
\* computed from the truncated source, for a float and for a double
C24_AsStated ==
    (CastToUIntIsEmulated /\ CastVisited) =>
        /\ \E n \in BeforeCast : nodes[n].hw = "SubtractScalar"
        /\ TruncatesCastSource(nodes[WrapVal].ops[1])

\* C24: in the emulated conversion to uint the wrapped value of a double is
\* computed from the source truncated toward zero, by RoundToZeroScalar
\* with SSE4.2 and else by clearing the low 21 bits; the wrapped value of a
\* float is computed from the source itself, which is not truncated
C24_OnlyDoubleSourceIsTruncated ==
    (CastToUIntIsEmulated /\ CastVisited) =>
        /\ \E n \in BeforeCast : nodes[n].hw = "SubtractScalar"
        /\ WrapsFloorOf(WrapVal, nodes[WrapVal].ops[1])
        /\ IF input.desc.src = "double"
           THEN /\ TruncatesCastSource(nodes[WrapVal].ops[1])
                /\ (nodes[nodes[WrapVal].ops[1]].hw = "RoundToZeroScalar") = input.cfg.sse42
           ELSE ReadsCastSource(nodes[WrapVal].ops[1])

\* a double has been truncated by the rounding instruction before wrapping
C24_Witness ==
    /\ CastToUIntIsEmulated /\ CastVisited /\ cur = 0
    /\ input.desc.src = "double"
    /\ nodes[nodes[WrapVal].ops[1]].hw = "RoundToZeroScalar"
    /\ ReadsCastSource(nodes[nodes[WrapVal].ops[1]].ops[1])

-----------------------------------------------------------------------------
(* C25: a zero that is stored                                              *)

\* the stores of the block, indirect or to a local, and the value stored
ValueStores == {n \in RangeSet(State) : nodes[n].oper \in {"STOREIND", "STORE_LCL_VAR"}}

StoredValueOf(st) == nodes[st].ops[IF nodes[st].oper = "STOREIND" THEN 2 ELSE 1]

-----------------------------------------------------------------------------
(* C26: the fill value of a block initialisation                           *)

BlockStores == {n \in RangeSet(State) : nodes[n].oper = "STORE_BLK"}

\* the node that holds the init value of the block store st
InitValueOf(st) ==
    IF nodes[nodes[st].ops[2]].oper = "INIT_VAL" THEN nodes[nodes[st].ops[2]].ops[1] ELSE nodes[st].ops[2]

\* the low byte of the init value that the block was given
InitByte == input.desc.val % 256

\* the constant c is the byte b in each of its 8 bytes
IsByteIn8Bytes(c, b) == nodes[c].ival = b * 16843009 /\ nodes[c].ivalHi = b * 16843009

\* the constant c is the byte b in each of its low 4 bytes, the high ones 0
IsByteIn4Bytes(c, b) == nodes[c].ival = b * 16843009 /\ nodes[c].ivalHi = 0

\* C26 as stated: the constant init value of a lowered block initialisation
\* whose size is a multiple of 8 bytes holds the init byte 8 times
C26_AsStated ==
    input.desc.kind = "initblk" =>
        \A st \in BlockStores :
            /\ Lowered(st)
            /\ nodes[InitValueOf(st)].oper = "CNS_INT"
            /\ nodes[st].size % 8 = 0
            => IsByteIn8Bytes(InitValueOf(st), InitByte)

\* C26: the non-zero constant init value of a lowered block initialisation
\* holds the init byte 8 times, as a long, exactly if the target is the
\* 64-bit one and the initialisation is unrolled without SIMD stores (its
\* size is below 16 bytes, or the block is on the heap and holds references)
\* and has a size of 8 bytes or more; an initialisation unrolled without
\* SIMD stores otherwise holds the byte 4 times, one unrolled with SIMD
\* stores holds the byte once and is contained
C26_FillReplicatedBySize ==
    input.desc.kind = "initblk" /\ InitByte # 0 =>
        \A st \in BlockStores :
            Lowered(st) /\ nodes[InitValueOf(st)].oper = "CNS_INT" =>
                LET c == InitValueOf(st)
                    unrolled == nodes[st].blkOp = "Unroll"
                    simd == ~nodes[st].gcHeap /\ nodes[st].size >= 16
                IN  /\ (IsByteIn8Bytes(c, InitByte) /\ nodes[c].typ = "long")
                           = (unrolled /\ ~simd /\ ~input.cfg.x86 /\ nodes[st].size >= 8)
                    /\ unrolled /\ ~simd /\ (input.cfg.x86 \/ nodes[st].size < 8) =>
                           IsByteIn4Bytes(c, InitByte)
                    /\ unrolled /\ simd =>
                           nodes[c].ival = InitByte /\ nodes[c].ivalHi = 0 /\ nodes[c].contained

\* a 12-byte initialisation with a non-zero byte has been lowered on the
\* 64-bit target and its constant holds the byte 8 times
C26_Witness ==
    /\ input.desc.kind = "initblk" /\ InitByte # 0 /\ ~input.cfg.x86
    /\ \E st \in BlockStores :
           /\ Lowered(st) /\ nodes[st].size = 12 /\ nodes[st].blkOp = "Unroll"
           /\ IsByteIn8Bytes(InitValueOf(st), InitByte)

-----------------------------------------------------------------------------
(* C27: the folded Insert computes what the two inserts computed           *)

\* insertps on vectors of 4 elements: element count_s of b is written to
\* element count_d of a, then the elements of zmask are zeroed
InsertPs(a, b, ival) ==
    [i \in 1..4 |->
        IF (i - 1) \in BitsOf(InsertZMask(ival)) THEN 0
        ELSE IF i - 1 = InsertCountD(ival) THEN b[InsertCountS(ival) + 1]
        ELSE a[i]]

RECURSIVE InsertValue(_, _)

\* the vector that n computes: the local l holds the elements 10 l + 1, ...,
\* 10 l + 4, none of them zero
InsertValue(s, n) ==
    LET nd == s.nodes[n]
    IN  CASE nd.oper = "LCL_VAR" -> [i \in 1..4 |-> 10 * nd.ival + i]
          [] nd.oper = "HWINTRINSIC" /\ nd.hw = "Insert" ->
               InsertPs(InsertValue(s, nd.ops[1]), InsertValue(s, nd.ops[2]), s.nodes[nd.ops[3]].ival)
          [] nd.oper = "RETURN" -> InsertValue(s, nd.ops[1])
          [] OTHER -> [i \in 1..4 |-> 0]

\* the two Insert nodes and the RETURN of the block as it was given
InsertReturn == CHOOSE n \in DOMAIN input.nodes : input.nodes[n].oper = "RETURN"

OuterInsert == input.nodes[InsertReturn].ops[1]

InnerInsert == input.nodes[OuterInsert].ops[1]

\* the chain Insert(Insert(v, zero, i1), x, i2) has been folded: the inner
\* Insert is unlinked and the outer one reads v
InsertChainIsFolded ==
    /\ input.desc.kind = "insert" /\ input.desc.form = "zx"
    /\ InRange(State, OuterInsert) /\ ~InRange(State, InnerInsert)
    /\ nodes[OuterInsert].ops[1] = input.nodes[InnerInsert].ops[1]

\* C27: once Insert(Insert(v, zero, i1), x, i2) is folded into one Insert,
\* that Insert computes, element by element, the vector that the two
\* inserts of the given block compute one after the other
C27_FoldedInsertComputesTheSame ==
    InsertChainIsFolded =>
        /\ nodes[OuterInsert].ops[2] = input.nodes[OuterInsert].ops[2]
        /\ InsertValue(State, OuterInsert) = InsertValue(InputState, OuterInsert)
        /\ InsertValue(State, InsertReturn) = InsertValue(InputState, InsertReturn)

\* the chain that zeroes element 1 and then writes x to it, zeroing element
\* 3 as well, has been folded
C27_Witness ==
    /\ InsertChainIsFolded
    /\ input.desc.i1 = 16 /\ input.desc.i2 = 16 + 8
    /\ nodes[nodes[OuterInsert].ops[3]].ival = 16 + 8
    /\ cur = 0

-----------------------------------------------------------------------------
(* C28: a ConditionalSelect with a zero value                              *)

\* ConditionalSelect(cond, a, b) with a or b the zero vector
CndSelWithZeroArm ==
    /\ input.desc.kind = "cndsel"
    /\ input.desc.op2 = "zero" \/ input.desc.op3 = "zero"

CndSelCond == input.nodes[CndSelNode].ops[1]

\* the node that stands for the select is AND(cond, a) when b is zero and
\* the AND_NOT that computes ~cond & b when a is zero
IsBinOpOfCondition(n) ==
    IF input.desc.op3 = "zero"
    THEN /\ nodes[n].hw = "AND"
         /\ {nodes[n].ops[1], nodes[n].ops[2]} = {CndSelCond, input.nodes[CndSelNode].ops[2]}
    ELSE /\ nodes[n].hw = "AND_NOT"
         /\ nodes[n].ops = <<CndSelCond, input.nodes[CndSelNode].ops[3]>>

\* C28 as stated: a lowered ConditionalSelect with a zero value is the AND
\* or the AND_NOT of the condition and the other value
C28_AsStated == (CndSelWithZeroArm /\ CndSelVisited) => IsBinOpOfCondition(CndSelResult)

\* the condition is a per-element mask that is no mask converted to a
\* vector, and the vectors have fewer than 64 bytes
CndSelByVectorMask ==
    /\ IsVectorPerElementMask(InputState, CndSelCond)
    /\ ~OperIsConvertMaskToVector(InputState, CndSelCond)
    /\ input.desc.size # 64

\* C28: a lowered ConditionalSelect with a zero value is the AND (b zero) or
\* the AND_NOT (a zero) of the condition and the other value exactly if the
\* condition is a per-element mask other than a converted mask and the
\* vectors have 16 or 32 bytes; any other select with a zero value becomes a
\* blend by a mask, a TernaryLogic or the OR of an AND and an AND_NOT
C28_ZeroArmOfMaskedSelect ==
    (CndSelWithZeroArm /\ CndSelVisited) =>
        IF CndSelByVectorMask
        THEN IsBinOpOfCondition(CndSelResult) /\ ~InRange(State, CndSelNode)
        ELSE nodes[CndSelResult].hw \in {"BlendVariableMask", "TernaryLogic", "OR"}

\* a select by a comparison whose second value is zero has become an AND
C28_Witness ==
    /\ CndSelWithZeroArm /\ CndSelVisited /\ cur = 0
    /\ input.desc.op1 = "cmp" /\ input.desc.op3 = "zero" /\ input.desc.size = 32
    /\ nodes[CndSelResult].hw = "AND"
    /\ ~InRange(State, CndSelNode)


-----------------------------------------------------------------------------
(* The operand of a binary operator that is left to the register allocator *)

\* the commutative integer operators with two operands of their own type,
\* neither of them contained, each of which may be reg-optional, and one of
\* which is
RegOptionalBinOps ==
    {n \in RangeSet(State) :
        /\ nodes[n].oper \in {"ADD", "AND", "OR", "XOR"}
        /\ Len(nodes[n].ops) = 2
        /\ \A k \in 1..2 :
              /\ nodes[nodes[n].ops[k]].typ = nodes[n].typ
              /\ ~nodes[nodes[n].ops[k]].contained
              /\ IsSafeToMarkRegOptional(State, n, nodes[n].ops[k])
        /\ \E k \in 1..2 : nodes[nodes[n].ops[k]].regOpt}

RegOptionalOperand(n) == CHOOSE op \in {nodes[n].ops[1], nodes[n].ops[2]} : nodes[op].regOpt

UnmarkedOperand(n) == CHOOSE op \in {nodes[n].ops[1], nodes[n].ops[2]} : op # RegOptionalOperand(n)

IsLocal(op) == nodes[op].oper = "LCL_VAR"

IsRegCandidate(op) == IsLocal(op) /\ ~lvDoNotEnregister(State, op) /\ IsTrackedLocal(State, op)

RefCntWtd(op) == input.cfg.wt[nodes[op].ival]

\* the number of nodes from the definition of the operand to its use
LiveRange(n, op) == Pos(State, n) - Pos(State, op)

\* C29 as the specification states it: of two locals the one with the lower
\* weighted reference count is marked, else a local rather than a non-local,
\* else the operand with the shorter live range
C29_AsStated ==
    \A n \in RegOptionalBinOps :
        LET m == RegOptionalOperand(n)
            o == UnmarkedOperand(n)
        IN  IF IsLocal(m) /\ IsLocal(o)
            THEN IsRegCandidate(m) /\ IsRegCandidate(o) => RefCntWtd(m) <= RefCntWtd(o)
            ELSE IF IsLocal(m) \/ IsLocal(o) THEN IsLocal(m)
            ELSE LiveRange(n, m) < LiveRange(n, o)

\* C29: of two locals that are both tracked register candidates the second
\* operand is marked unless the first has the strictly lower weighted
\* reference count; of two other locals the first operand is marked; of a
\* local and a non-local the local; of two non-locals the first operand,
\* whatever the live ranges
C29_FirstOperandUnlessSecondPreferred ==
    \A n \in RegOptionalBinOps :
        LET op1 == nodes[n].ops[1]
            op2 == nodes[n].ops[2]
        IN  /\ ~(nodes[op1].regOpt /\ nodes[op2].regOpt)
            /\ nodes[op2].regOpt <=>
                  \/ /\ IsRegCandidate(op1) /\ IsRegCandidate(op2)
                     /\ RefCntWtd(op1) >= RefCntWtd(op2)
                  \/ ~IsLocal(op1) /\ IsLocal(op2)

\* two non-locals, the first of them defined first and marked
C29_Witness ==
    \E n \in RegOptionalBinOps :
        /\ ~IsLocal(nodes[n].ops[1]) /\ ~IsLocal(nodes[n].ops[2])
        /\ nodes[nodes[n].ops[1]].regOpt
        /\ LiveRange(n, nodes[n].ops[1]) > LiveRange(n, nodes[n].ops[2])


-----------------------------------------------------------------------------
(* The scratch marks of the read-modify-write walk                         *)

\* the stores whose read-modify-write status has been computed
DetectedStores == {n \in RangeSet(State) : nodes[n].oper = "STOREIND" /\ nodes[n].rmw \notin {"NA", "RMW_STATUS_UNKNOWN"}}

\* the walks over the operands of the value of the store st, as they ran
\* when the status of st was computed
WalksOf(st) ==
    {IsRMWIndirCandidateWalk(State, nodes[nodes[st].ops[2]].ops[k], st) :
        k \in DOMAIN nodes[nodes[st].ops[2]].ops}

\* C30: when the walk has returned, by whichever exit, no node of the range
\* has its mark set
C30_NoMarkIsLeft == \A n \in DOMAIN nodes : ~nodes[n].mark

\* the status of a store has been computed by a walk that found an
\* interference while marks were left
C30_Witness ==
    /\ \E st \in DetectedStores : \E w \in WalksOf(st) : w.exit = "interference" /\ w.leftover > 0
    /\ \A n \in DOMAIN nodes : ~nodes[n].mark

=============================================================================
